---- MODULE Spec2Model ----
(***************************************************************************)
(* Multi-tenant retrieval-and-answer pipeline of slack-helper:             *)
(*   ChromaDBClient (db/chromadb_client.py), QueryService                  *)
(*   (services/query_service.py), QAService (services/qa_service.py),      *)
(*   the /ask route (api/routes/qa.py) and the workspace authorisation     *)
(*   middleware (api/middleware/workspace_auth.py).                        *)
(*                                                                         *)
(* Spec is the request pipeline over the ingested stores; FilterSpec calls *)
(* _filter_quality_messages on its own; StoreSpec runs ingestion, deletion *)
(* and the structured lookups of QueryService over the two stores.         *)
(* InferSpec, ConfidenceSpec, SourcesSpec and LinksSpec call               *)
(* _infer_filters, _extract_confidence, _format_sources and                *)
(* _extract_project_links on bounded inputs.  PoolSpec interleaves the     *)
(* asyncio tasks that share DatabaseConnection (db/connection.py); db is   *)
(* that class's state.  IngestSpec delivers Slack events to the listener   *)
(* (services/slack_listener.py) next to the backfill's sync path.          *)
(*                                                                         *)
(* Texts are sequences of whitespace-delimited words; WordLen gives the    *)
(* number of characters of a word.  Python's None is the sentinel NoneVal  *)
(* for strings and NoDays for integers.                                    *)
(***************************************************************************)
EXTENDS Integers, Sequences, FiniteSets, TLC

VARIABLES chroma, workspaces, message_metadata, pc, req, engine, work, result, http,
          opened, queries, db

vars == <<chroma, workspaces, message_metadata, pc, req, engine, work, result, http,
          opened, queries, db>>

-----------------------------------------------------------------------------
(* Bounds of the model *)

\* live messages ingested one at a time (add_message) over a run
MaxDocs == 2

\* largest n_context_messages / n_results a caller asks for in the small cases
MaxContext == 1

\* messages of the channel history one backfill stores; also asked for as
\* n_context_messages, so that more than SourceCap messages survive
HistoryLen == 12

-----------------------------------------------------------------------------
(* Program constants *)

\* qa_service.py:83  search_results = n_context_messages * 3
OverFetch == 3

\* qa_service.py:207  len(text.strip()) < 10
MinTextLen == 10

\* qa_service.py:518,544  messages[:10]
SourceCap == 10

\* qa_service.py:554  msg['text'][:200]
SnippetLen == 200

\* qa_service.py:403  mock answers carry confidence 50
MockConfidence == 50

\* api/routes/qa.py:16  the development get_current_user returns org_id 8
DevOrgId == 8

\* the other organisation owning workspaces in the metadata store
OtherOrgId == 9

\* the clock, in days; Slack timestamps are modelled in whole days
Now == 100

-----------------------------------------------------------------------------
(* Python values *)

NoneVal == "<None>"

NoDays == -1

\* '' for a timestamp string: float('') raises
NoTs == -1

\* truthiness of an Optional[str]
Falsy(x) == x = NoneVal \/ x = ""

\* truthiness of an Optional[int]
FalsyInt(x) == x = NoDays \/ x = 0

\* x or y
OrElse(x, y) == IF Falsy(x) THEN y ELSE x

Min(a, b) == IF a < b THEN a ELSE b

Range(s) == {s[i] : i \in 1..Len(s)}

\* s[:n]
Take(s, n) == SubSeq(s, 1, Min(n, Len(s)))

RECURSIVE SumSeq(_)
SumSeq(s) == IF s = <<>> THEN 0 ELSE Head(s) + SumSeq(Tail(s))

-----------------------------------------------------------------------------
(* Words and texts *)

WordLen(w) ==
    CASE w = "ok" -> 2
      [] w = "cc" -> 2
      [] w = "" -> 0
      [] w = "a" -> 1
      [] w = "ok" -> 2
      [] w = "lorem99" -> 99
      [] w = "lorem100" -> 100
      [] w = "lorem200" -> 200
      [] w = "lorem201" -> 201
      [] w = "in" -> 2
      [] w = "pr:" -> 3
      [] w = "out" -> 3
      [] w = "the" -> 3
      [] w = "has" -> 3
      [] w = "are" -> 3
      [] w = "prs" -> 3
      [] w = "this" -> 4
      [] w = "what" -> 4
      [] w = "user" -> 4
      [] w = "Has" -> 3
      [] w = "The" -> 3
      [] w = "Check" -> 5
      [] w = "check" -> 5
      [] w = "Alice" -> 5
      [] w = "alice" -> 5
      [] w = "<@U3>" -> 5
      [] w = "<@u3>" -> 5
      [] w = "Joined" -> 6
      [] w = "joined" -> 6
      [] w = "Channel" -> 7
      [] w = "<@U1><@U2>" -> 10
      [] w = "<@u1><@u2>" -> 10
      [] w = "<@U1>" -> 5
      [] w = "<@u1>" -> 5
      [] w = "<@U2>" -> 5
      [] w = "<@u2>" -> 5
      [] w = "open?" -> 5
      [] w = "deploy" -> 6
      [] w = "pinned" -> 6
      [] w = "channel" -> 7
      [] w = "message" -> 7
      [] w = "standup" -> 7
      [] w = "finished" -> 8
      [] w = "#general" -> 8
      [] w = "happened" -> 8
      [] w = "recently" -> 8
      [] w = "yesterday" -> 9
      [] w = "https://github.com/org/repo/pull/123" -> 36
      [] w = "https://github.com/org/repo" -> 27
      [] OTHER -> 4

\* str.lower() of one word
LowerWord(w) ==
    CASE w = "Check" -> "check"
      [] w = "<@U1>" -> "<@u1>"
      [] w = "<@U2>" -> "<@u2>"
      [] w = "<@U3>" -> "<@u3>"
      [] w = "<@U1><@U2>" -> "<@u1><@u2>"
      [] w = "Alice" -> "alice"
      [] w = "Has" -> "has"
      [] w = "Joined" -> "joined"
      [] w = "The" -> "the"
      [] w = "Channel" -> "channel"
      [] w = "Today" -> "today"
      [] w = "Might" -> "might"
      [] w = "Not" -> "not"
      [] w = "Last" -> "last"
      [] OTHER -> w

\* str.lower() of a text
Lower(text) == [i \in 1..Len(text) |-> LowerWord(text[i])]

\* len(text.strip()): the words joined by single blanks
CharLen(text) ==
    IF text = <<>> THEN 0
    ELSE SumSeq([i \in 1..Len(text) |-> WordLen(text[i])]) + (Len(text) - 1)

\* pattern in text, for a pattern that is a run of whole words
ContainsPhrase(text, pat) ==
    \E i \in 1..(Len(text) - Len(pat) + 1) :
        \A j \in 1..Len(pat) : text[i + j - 1] = pat[j]

\* a word that is one mention
IsMention(w) == w \in {"<@U1>", "<@u1>", "<@U2>", "<@u2>", "<@U3>", "<@u3>"}

\* word.count('<@'): two mentions written without a blank are one word
Markers(w) ==
    IF w \in {"<@U1><@U2>", "<@u1><@u2>"} THEN 2
    ELSE IF IsMention(w) THEN 1 ELSE 0

\* text.count('<@')
CountMentions(text) == SumSeq([i \in 1..Len(text) |-> Markers(text[i])])

-----------------------------------------------------------------------------
(* Tenants, the metadata store's workspaces table, the message feed *)

Tenants == {"W_A", "W_B"}

\* api/routes/qa.py:57  QAService(workspace_id=workspace_id or "W_DEFAULT")
DefaultWorkspace == "W_DEFAULT"

\* rows of the workspaces table: (workspace_id, org_id, is_active)
WorkspaceTables ==
    { {[workspace_id |-> "W_A", org_id |-> DevOrgId, is_active |-> TRUE],
       [workspace_id |-> "W_B", org_id |-> OtherOrgId, is_active |-> TRUE]},
      {[workspace_id |-> "W_A", org_id |-> DevOrgId, is_active |-> FALSE],
       [workspace_id |-> "W_B", org_id |-> OtherOrgId, is_active |-> TRUE]} }

PrText == <<"Check", "out", "this", "pr:", "https://github.com/org/repo/pull/123", "cc", "user">>

DeployText == <<"deploy", "finished", "yesterday">>

\* a pinned_item notice: its subtype is not one the history fetch skips
PinText == <<"<@U1>", "pinned", "a", "message">>

\* messages the Slack platform delivers to the live listener, keyed by
\* (workspace_id, slack_ts); W_A and W_B both hold PrText under the same ts
Feed ==
    { [workspace_id |-> "W_A", slack_ts |-> Now, channel_id |-> "C1",
       channel_name |-> "general", user_id |-> "U1", user_name |-> "alice",
       text |-> PrText],
      [workspace_id |-> "W_A", slack_ts |-> Now - 10, channel_id |-> "C2",
       channel_name |-> "standup", user_id |-> "U2", user_name |-> "",
       text |-> DeployText],
      [workspace_id |-> "W_B", slack_ts |-> Now, channel_id |-> "C1",
       channel_name |-> "general", user_id |-> "U3", user_name |-> "bob",
       text |-> PrText] }

\* a message a script stores with ChromaDBClient.add_message, its metadata
\* without a timestamp (as in tests/test_workspace_isolation.py)
ScriptFeed ==
    { [workspace_id |-> "W_A", slack_ts |-> Now - 1, channel_id |-> "C1",
       channel_name |-> "general", user_id |-> "U1", user_name |-> "alice",
       text |-> <<"deploy", "finished", "build", "b00">>,
       metadata_timestamp |-> NoTs] }

\* the users table of the metadata store: COALESCE(display_name, real_name, user_name)
UsersTable(ws, user_id) ==
    IF ws = "W_A" /\ user_id = "U2" THEN "Dana" ELSE NoneVal

-----------------------------------------------------------------------------
(* ChromaDBClient: one collection per workspace *)

\* f"workspace_{workspace_id}_messages"
collection_name(workspace_id) == <<"workspace", workspace_id, "messages">>

\* client.get_or_create_collection(name=collection_name)
get_or_create_collection(store, workspace_id) ==
    IF collection_name(workspace_id) \in DOMAIN store
    THEN store
    ELSE store @@ (collection_name(workspace_id) :> <<>>)

\* metadata.get('workspace_id'): the caller's metadata may name a workspace
\* (tests/test_workspace_isolation.py does); the live listener's does not
metadata_workspace_id(m) ==
    IF "metadata_workspace_id" \in DOMAIN m THEN m.metadata_workspace_id ELSE NoneVal

\* str(metadata.get('timestamp', '')): the live listener passes slack_ts; a
\* caller whose metadata has no timestamp gets ''
metadata_timestamp(m) ==
    IF "metadata_timestamp" \in DOMAIN m THEN m.metadata_timestamp ELSE m.slack_ts

\* add_message's metadata with 'workspace_id': metadata.get('workspace_id', workspace_id)
chroma_metadata_caller_first(workspace_id, m) ==
    [workspace_id |-> IF metadata_workspace_id(m) # NoneVal
                      THEN metadata_workspace_id(m) ELSE workspace_id,
     channel_id   |-> m.channel_id,
     user_id      |-> m.user_id,
     timestamp    |-> metadata_timestamp(m),
     channel_name |-> m.channel_name,
     user_name    |-> m.user_name]

\* the metadata add_message writes: workspace_id is the argument, never the
\* caller's metadata
chroma_metadata(workspace_id, m) ==
    [workspace_id |-> workspace_id,
     channel_id   |-> m.channel_id,
     user_id      |-> m.user_id,
     timestamp    |-> metadata_timestamp(m),
     channel_name |-> m.channel_name,
     user_name    |-> m.user_name]

HasId(coll, id) == \E i \in 1..Len(coll) : coll[i].id = id

\* collection.add: a record whose id is already present is left as it is
collection_add(coll, doc) ==
    IF HasId(coll, doc.id) THEN coll ELSE Append(coll, doc)

\* collection.upsert: a record whose id is already present is replaced in place
collection_upsert(coll, doc) ==
    IF HasId(coll, doc.id)
    THEN [i \in 1..Len(coll) |-> IF coll[i].id = doc.id THEN doc ELSE coll[i]]
    ELSE Append(coll, doc)

\* ChromaDBClient.add_message
add_message(store, workspace_id, m) ==
    LET opened_store == get_or_create_collection(store, workspace_id)
        name == collection_name(workspace_id)
        doc == [id       |-> <<workspace_id, m.slack_ts>>,
                text     |-> m.text,
                metadata |-> chroma_metadata(workspace_id, m)]
    IN  [opened_store EXCEPT ![name] = collection_add(@, doc)]

\* the metadata add_messages_batch writes for one message of the batch
batch_metadata(workspace_id, msg) ==
    [workspace_id |-> workspace_id,
     channel_id   |-> msg.channel_id,
     user_id      |-> msg.user_id,
     timestamp    |-> metadata_timestamp(msg),
     channel_name |-> msg.channel_name,
     user_name    |-> msg.user_name]

RECURSIVE AddAll(_, _)
AddAll(coll, docs) ==
    IF docs = <<>> THEN coll
    ELSE AddAll(collection_add(coll, Head(docs)), Tail(docs))

\* ChromaDBClient.add_messages_batch
add_messages_batch(store, workspace_id, messages) ==
    IF messages = <<>> THEN store
    ELSE LET opened_store == get_or_create_collection(store, workspace_id)
             name == collection_name(workspace_id)
             docs == [i \in 1..Len(messages) |->
                        [id       |-> <<workspace_id, messages[i].slack_ts>>,
                         text     |-> messages[i].text,
                         metadata |-> batch_metadata(workspace_id, messages[i])]]
         IN  [opened_store EXCEPT ![name] = AddAll(@, docs)]

\* Optional[Dict] None returned by get_message
NoDoc == [none |-> TRUE]

\* ChromaDBClient.get_message: the record of id workspace_id_slack_ts, or None;
\* the collection is created when it does not exist
get_message(store, workspace_id, slack_ts) ==
    LET opened_store == get_or_create_collection(store, workspace_id)
        coll == opened_store[collection_name(workspace_id)]
        hits == {i \in 1..Len(coll) : coll[i].id = <<workspace_id, slack_ts>>}
    IN  IF hits = {} THEN NoDoc ELSE coll[CHOOSE i \in hits : TRUE]

\* ChromaDBClient.delete_message: collection.delete(ids=[doc_id])
delete_message(store, workspace_id, slack_ts) ==
    LET opened_store == get_or_create_collection(store, workspace_id)
        name == collection_name(workspace_id)
    IN  [opened_store EXCEPT ![name] =
            SelectSeq(@, LAMBDA d : d.id # <<workspace_id, slack_ts>>)]

\* the embedding of a text is opaque to the program; here a total function of
\* the text, so equal texts of different tenants are equally near to a query
Embed(text) == Len(text) % 3

Abs(x) == IF x < 0 THEN -x ELSE x

Distance(query_text, text) == Abs(Embed(query_text) - Embed(text))

\* where={k: v, ...}: a record matches when it carries every key with that value
Matches(doc, where) ==
    \A k \in DOMAIN where :
        k \in DOMAIN doc.metadata /\ doc.metadata[k] = where[k]

RECURSIVE Filter(_, _, _, _)
Filter(coll, where, query_text, d) ==
    IF coll = <<>> THEN <<>>
    ELSE LET rest == Filter(Tail(coll), where, query_text, d)
             doc == Head(coll)
         IN  IF Matches(doc, where) /\ Distance(query_text, doc.text) = d
             THEN <<[id |-> doc.id, text |-> doc.text, metadata |-> doc.metadata,
                     distance |-> d]>> \o rest
             ELSE rest

\* collection.query: the n_results nearest matching records, by ascending
\* distance, ties in insertion order
collection_query(coll, query_text, n_results, where) ==
    Take(Filter(coll, where, query_text, 0)
           \o Filter(coll, where, query_text, 1)
           \o Filter(coll, where, query_text, 2), n_results)

\* Optional[Dict] None; {} is the empty function <<>>
NoFilter == [none |-> TRUE]

\* where_filter.setdefault('workspace_id', workspace_id): the caller's value stays
enforce_workspace_setdefault(where_filter, workspace_id) ==
    LET base == IF where_filter = NoFilter THEN <<>> ELSE where_filter
    IN  [k \in (DOMAIN base) \cup {"workspace_id"} |->
            IF k \in DOMAIN base THEN base[k] ELSE workspace_id]

\* where_filter['workspace_id'] = workspace_id  (None becomes {})
enforce_workspace(where_filter, workspace_id) ==
    LET base == IF where_filter = NoFilter THEN <<>> ELSE where_filter
    IN  [k \in (DOMAIN base) \cup {"workspace_id"} |->
            IF k = "workspace_id" THEN workspace_id ELSE base[k]]

\* search_messages that opens the collection before it tests workspace_id
search_messages_late_check(store, workspace_id, query_text, n_results, where_filter, query_raises) ==
    LET opened_store == get_or_create_collection(store, workspace_id)
        name == collection_name(workspace_id)
        where == enforce_workspace(where_filter, workspace_id)
        q == [collection |-> name, where |-> where, n_results |-> n_results]
    IN  IF Falsy(workspace_id)
        THEN [store |-> opened_store, opened |-> <<name>>, queries |-> <<>>,
              error |-> "ValueError", results |-> <<>>]
        ELSE IF query_raises
        THEN [store |-> opened_store, opened |-> <<name>>, queries |-> <<q>>,
              error |-> "ChromaError", results |-> <<>>]
        ELSE [store |-> opened_store, opened |-> <<name>>, queries |-> <<q>>,
              error |-> NoneVal,
              results |-> collection_query(opened_store[name], query_text,
                                           n_results, where)]

\* ChromaDBClient.search_messages; query_raises is the vector store failing.
\* The value tells what was opened and queried besides what is returned.
search_messages(store, workspace_id, query_text, n_results, where_filter, query_raises) ==
    IF Falsy(workspace_id)
    THEN [store |-> store, opened |-> <<>>, queries |-> <<>>,
          error |-> "ValueError", results |-> <<>>]
    ELSE LET opened_store == get_or_create_collection(store, workspace_id)
             name == collection_name(workspace_id)
             where == enforce_workspace(where_filter, workspace_id)
             q == [collection |-> name, where |-> where, n_results |-> n_results]
         IN  IF query_raises
             THEN [store |-> opened_store, opened |-> <<name>>, queries |-> <<q>>,
                   error |-> "ChromaError", results |-> <<>>]
             ELSE [store |-> opened_store, opened |-> <<name>>, queries |-> <<q>>,
                   error |-> NoneVal,
                   results |-> collection_query(opened_store[name], query_text,
                                                n_results, where)]

-----------------------------------------------------------------------------
(* QueryService *)

\* datetime.min, in days relative to the epoch
DateMin == -719162

\* _parse_timestamp with 'except: return datetime.max'
parse_timestamp_max(ts) == IF ts = NoTs THEN -DateMin ELSE ts

\* QueryService._parse_timestamp: float(ts_string) or datetime.min
parse_timestamp(ts) == IF ts = NoTs THEN DateMin ELSE ts

\* the time filter building its list with insert(0, result)
KeepRecent_insert_front(results, cutoff) ==
    LET kept == SelectSeq(results,
                    LAMBDA d : parse_timestamp(d.metadata.timestamp) > cutoff)
    IN  [i \in 1..Len(kept) |-> kept[Len(kept) + 1 - i]]

RECURSIVE KeepRecent(_, _)
\* [r for r in results if self._parse_timestamp(...) > cutoff]
KeepRecent(results, cutoff) ==
    IF results = <<>> THEN <<>>
    ELSE IF parse_timestamp(Head(results).metadata.timestamp) > cutoff
         THEN <<Head(results)>> \o KeepRecent(Tail(results), cutoff)
         ELSE KeepRecent(Tail(results), cutoff)

\* semantic_search with a fixed workspace id in place of self.workspace_id
semantic_search_hardcoded(store, self_workspace_id, query, n_results, channel_filter, days_back, query_raises) ==
    LET where_filter == IF ~Falsy(channel_filter)
                        THEN [channel_name |-> channel_filter]
                        ELSE NoFilter
        r == search_messages(store, "W_A", query, n_results,
                             where_filter, query_raises)
    IN  IF r.error # NoneVal THEN r
        ELSE IF ~FalsyInt(days_back)
             THEN [r EXCEPT !.results = KeepRecent(@, Now - days_back)]
             ELSE r

\* QueryService.semantic_search of the service built for self_workspace_id
semantic_search(store, self_workspace_id, query, n_results, channel_filter, days_back, query_raises) ==
    LET where_filter == IF ~Falsy(channel_filter)
                        THEN [channel_name |-> channel_filter]
                        ELSE NoFilter
        r == search_messages(store, self_workspace_id, query, n_results,
                             where_filter, query_raises)
    IN  IF r.error # NoneVal THEN r
        ELSE IF ~FalsyInt(days_back)
             THEN [r EXCEPT !.results = KeepRecent(@, Now - days_back)]
             ELSE r

\* 'text' of a most-reacted row without a vector-store entry
MessageNotFound == <<"[Message", "not", "found]">>

Reverse(s) == [i \in 1..Len(s) |-> s[Len(s) + 1 - i]]

\* WHERE m.workspace_id = %s AND m.created_at > NOW() - INTERVAL '%s days'
\* (deleted_at is never set by the program)
InWindow(row, workspace_id, days_back) ==
    row.workspace_id = workspace_id /\ row.created_at > Now - days_back

\* the rows get_recent_messages selects: ORDER BY m.created_at DESC LIMIT %s,
\* rows of equal created_at latest insertion first
recent_rows(rows, workspace_id, days_back, limit, channel_filter) ==
    Take(Reverse(SelectSeq(rows, LAMBDA r :
                    /\ InWindow(r, workspace_id, days_back)
                    /\ (~Falsy(channel_filter) => r.channel_name = channel_filter))),
         limit)

RECURSIVE EnrichFound(_, _, _)
\* the loop of get_recent_messages: 'if chroma_msg:' appends, else nothing
EnrichFound(store, workspace_id, rows) ==
    IF rows = <<>> THEN <<>>
    ELSE LET msg == Head(rows)
             chroma_msg == get_message(store, workspace_id, msg.slack_ts)
             rest == EnrichFound(store, workspace_id, Tail(rows))
         IN  IF chroma_msg # NoDoc
             THEN <<[message_id |-> msg.message_id,
                     text       |-> chroma_msg.text,
                     metadata   |-> chroma_msg.metadata,
                     slack_ts   |-> msg.slack_ts,
                     created_at |-> msg.created_at]>> \o rest
             ELSE rest

\* QueryService.get_recent_messages: the rows selected, the entries returned,
\* and the store, in which get_message has opened the collection
get_recent_messages(store, rows, self_workspace_id, days_back, limit, channel_filter) ==
    LET results == recent_rows(rows, self_workspace_id, days_back, limit, channel_filter)
    IN  [rows     |-> results,
         enriched |-> EnrichFound(store, self_workspace_id, results),
         store    |-> IF results = <<>> THEN store
                      ELSE get_or_create_collection(store, self_workspace_id)]

RECURSIVE ByReactions(_)
\* ORDER BY reaction_count DESC, rows of equal count in table order
ByReactions(rows) ==
    IF rows = <<>> THEN <<>>
    ELSE LET top == CHOOSE i \in 1..Len(rows) :
                        /\ \A j \in 1..Len(rows) :
                              rows[j].reaction_count <= rows[i].reaction_count
                        /\ \A j \in 1..(i - 1) :
                              rows[j].reaction_count < rows[i].reaction_count
         IN  <<rows[top]>> \o
             ByReactions([k \in 1..(Len(rows) - 1) |->
                            IF k < top THEN rows[k] ELSE rows[k + 1]])

\* the rows get_most_reacted_messages selects: INNER JOIN reactions keeps the
\* rows with a reaction
most_reacted_rows(rows, workspace_id, days_back, limit, channel_id) ==
    Take(ByReactions(SelectSeq(rows, LAMBDA r :
                        /\ InWindow(r, workspace_id, days_back)
                        /\ r.reaction_count > 0
                        /\ (~Falsy(channel_id) => r.channel_id = channel_id))),
         limit)

\* the loop of get_most_reacted_messages: every row gives an entry
EnrichAll(store, workspace_id, rows) ==
    [i \in 1..Len(rows) |->
        LET msg == rows[i]
            chroma_msg == get_message(store, workspace_id, msg.slack_ts)
        IN  [message_id     |-> msg.message_id,
             text           |-> IF chroma_msg # NoDoc THEN chroma_msg.text
                                ELSE MessageNotFound,
             channel_name   |-> msg.channel_name,
             user_name      |-> msg.user_name,
             created_at     |-> msg.created_at,
             reaction_count |-> msg.reaction_count,
             metadata       |-> [channel_name |-> msg.channel_name,
                                 user_name    |-> msg.user_name]]]

\* QueryService.get_most_reacted_messages
get_most_reacted_messages(store, rows, self_workspace_id, days_back, limit, channel_id) ==
    LET results == most_reacted_rows(rows, self_workspace_id, days_back, limit, channel_id)
    IN  [rows     |-> results,
         enriched |-> EnrichAll(store, self_workspace_id, results),
         store    |-> IF results = <<>> THEN store
                      ELSE get_or_create_collection(store, self_workspace_id)]

-----------------------------------------------------------------------------
(* QAService: question interpretation *)

\* pattern in question_lower, word by word: a word holds a pattern word when
\* it equals it or is known to contain it
WordHas(w, p) ==
    \/ w = p
    \/ <<p, w>> \in {<<"recent", "recently">>, <<"general", "#general">>,
                     <<"standup", "#standup">>, <<"week", "weekend">>}

InText(text, pat) ==
    \E i \in 1..(Len(text) - Len(pat) + 1) :
        \A j \in 1..Len(pat) : WordHas(text[i + j - 1], pat[j])

\* time_patterns, in the dict's insertion order
time_patterns ==
    << [pattern |-> <<"today">>, days |-> 1],
       [pattern |-> <<"yesterday">>, days |-> 2],
       [pattern |-> <<"this", "week">>, days |-> 7],
       [pattern |-> <<"past", "week">>, days |-> 7],
       [pattern |-> <<"last", "week">>, days |-> 14],
       [pattern |-> <<"this", "month">>, days |-> 30],
       [pattern |-> <<"past", "month">>, days |-> 30],
       [pattern |-> <<"last", "month">>, days |-> 60],
       [pattern |-> <<"recent">>, days |-> 7],
       [pattern |-> <<"recently">>, days |-> 7],
       [pattern |-> <<"latest">>, days |-> 7] >>

\* _detect_time_filter returning the days of the last pattern that occurs
detect_time_filter_last_match(question) ==
    LET q == Lower(question)
        hits == {i \in 1..Len(time_patterns) : InText(q, time_patterns[i].pattern)}
    IN  IF hits = {} THEN NoDays
        ELSE time_patterns[CHOOSE i \in hits : \A j \in hits : i >= j].days

\* QAService._detect_time_filter
detect_time_filter(question) ==
    LET q == Lower(question)
        hits == {i \in 1..Len(time_patterns) : InText(q, time_patterns[i].pattern)}
    IN  IF hits = {} THEN NoDays
        ELSE time_patterns[CHOOSE i \in hits : \A j \in hits : i <= j].days

channel_keywords ==
    << "general", "standup", "hackathons", "random", "engineering",
       "design", "product", "marketing", "sales", "support",
       "dev", "testing", "qa", "operations", "announcements" >>

\* f'#{channel}'
Hash(channel) ==
    CASE channel = "general" -> "#general"
      [] channel = "standup" -> "#standup"
      [] OTHER -> "#"

\* f'#{channel}' in q or f'{channel} channel' in q or f'in {channel}' in q
MentionsChannel(q, channel) ==
    \/ \E i \in 1..Len(q) : q[i] = Hash(channel)
    \/ InText(q, <<channel, "channel">>)
    \/ ContainsPhrase(q, <<"in", channel>>)

\* QAService._detect_channel_filter
detect_channel_filter(question) ==
    LET q == Lower(question)
        hits == {i \in 1..Len(channel_keywords) : MentionsChannel(q, channel_keywords[i])}
    IN  IF hits = {} THEN NoneVal
        ELSE channel_keywords[CHOOSE i \in hits : \A j \in hits : i <= j]

-----------------------------------------------------------------------------
(* QAService: quality filter *)

skip_patterns ==
    { <<"has", "joined", "the", "channel">>,
      <<"has", "left", "the", "channel">>,
      <<"set", "the", "channel", "topic">>,
      <<"set", "the", "channel", "description">>,
      <<"uploaded", "a", "file">>,
      <<"renamed", "the", "channel">>,
      <<"archived", "the", "channel">>,
      <<"pinned", "a", "message">> }

\* the loop body with 'mention_count / word_count >= 0.5'
IsQuality_at_half(msg) ==
    LET text == Lower(msg.text)
        mention_count == CountMentions(text)
        word_count == Len(text)
    IN  /\ ~(CharLen(text) < MinTextLen)
        /\ ~(\E pattern \in skip_patterns : ContainsPhrase(text, pattern))
        /\ ~(word_count > 0 /\ 2 * mention_count >= word_count)

\* the three tests of the loop body; TRUE when the message is appended
IsQuality(msg) ==
    LET text == Lower(msg.text)
        mention_count == CountMentions(text)
        word_count == Len(text)
    IN  /\ ~(CharLen(text) < MinTextLen)
        /\ ~(\E pattern \in skip_patterns : ContainsPhrase(text, pattern))
        /\ ~(word_count > 0 /\ 2 * mention_count > word_count)

RECURSIVE FilterLoop(_, _, _)
FilterLoop(messages, limit, quality_messages) ==
    IF messages = <<>> THEN quality_messages
    ELSE IF IsQuality(Head(messages))
         THEN LET appended == Append(quality_messages, Head(messages))
              IN  IF Len(appended) >= limit THEN appended
                  ELSE FilterLoop(Tail(messages), limit, appended)
         ELSE FilterLoop(Tail(messages), limit, quality_messages)

\* the number of candidates the loop has looked at when it ends: all of them,
\* or those up to the one whose append made len(quality_messages) >= limit
RECURSIVE ExaminedLoop(_, _, _)
ExaminedLoop(messages, limit, kept) ==
    IF messages = <<>> THEN 0
    ELSE IF IsQuality(Head(messages))
         THEN IF kept + 1 >= limit THEN 1
              ELSE 1 + ExaminedLoop(Tail(messages), limit, kept + 1)
         ELSE 1 + ExaminedLoop(Tail(messages), limit, kept)

examined_candidates(messages, limit) == ExaminedLoop(messages, limit, 0)

\* _filter_quality_messages with quality_messages.insert(0, msg)
filter_quality_messages_insert_front(messages, limit) ==
    LET q == FilterLoop(messages, limit, <<>>)
    IN  [i \in 1..Len(q) |-> q[Len(q) + 1 - i]]

\* QAService._filter_quality_messages
filter_quality_messages(messages, limit) == FilterLoop(messages, limit, <<>>)

-----------------------------------------------------------------------------
(* QAService: context, confidence, links, sources *)

\* one block of the generation context: f"[#{channel_name}] (from {user_name}):\n{text}"
ContextBlock(msg) ==
    [channel_name |-> msg.metadata.channel_name,
     user_name    |-> msg.metadata.user_name,
     text         |-> msg.text]

\* _build_context with context_parts.insert(0, ...): the blocks in reverse order
build_context_reversed(messages) ==
    [i \in 1..Len(messages) |-> ContextBlock(messages[Len(messages) + 1 - i])]

\* QAService._build_context: the blocks, joined by blank lines, in message order
build_context(messages) == [i \in 1..Len(messages) |-> ContextBlock(messages[i])]

\* texts the generation collaborator returns; conf is the N of a trailing
\* 'Confidence: N% - rationale' line, NoDays when the text has none
GenTexts ==
    { [body |-> <<"the", "pr:", "is", "open", "[#general]">>, conf |-> 85,
       rationale |-> "well supported"],
      [body |-> <<"i'm", "not", "sure", "what", "you", "mean">>, conf |-> NoDays,
       rationale |-> ""],
      [body |-> <<"the", "build", "is", "green">>, conf |-> 150,
       rationale |-> "certain"] }

\* any(phrase in answer_lower for phrase in [...])
AnyPhrase(answer_lower, phrases) ==
    \E ph \in phrases : ContainsPhrase(answer_lower, ph)

\* _extract_confidence testing the hedging words before the other phrases
extract_confidence_hedge_first(gen) ==
    LET answer_lower == Lower(gen.body)
    IN  IF gen.conf # NoDays
        THEN [confidence |-> gen.conf, explanation |-> gen.rationale]
        ELSE IF AnyPhrase(answer_lower, {<<"might">>, <<"possibly">>, <<"seems">>})
        THEN [confidence |-> 55, explanation |-> "Some relevant information but not definitive"]
        ELSE IF AnyPhrase(answer_lower, {<<"couldn't", "find">>, <<"don't", "have">>,
                                         <<"no", "information">>})
        THEN [confidence |-> 10, explanation |-> "No relevant information found"]
        ELSE IF AnyPhrase(answer_lower, {<<"not", "sure">>, <<"unclear">>, <<"uncertain">>})
        THEN [confidence |-> 30, explanation |-> "Limited or unclear information"]
        ELSE [confidence |-> 65, explanation |-> "Relevant information found"]

\* QAService._extract_confidence: int(match.group(1)) of (\d+)% when the
\* pattern matches, else the keyword fallback
extract_confidence(gen) ==
    LET answer_lower == Lower(gen.body)
    IN  IF gen.conf # NoDays
        THEN [confidence |-> gen.conf, explanation |-> gen.rationale]
        ELSE IF AnyPhrase(answer_lower, {<<"couldn't", "find">>, <<"don't", "have">>,
                                         <<"no", "information">>})
        THEN [confidence |-> 10, explanation |-> "No relevant information found"]
        ELSE IF AnyPhrase(answer_lower, {<<"not", "sure">>, <<"unclear">>, <<"uncertain">>})
        THEN [confidence |-> 30, explanation |-> "Limited or unclear information"]
        ELSE IF AnyPhrase(answer_lower, {<<"might">>, <<"possibly">>, <<"seems">>})
        THEN [confidence |-> 55, explanation |-> "Some relevant information but not definitive"]
        ELSE [confidence |-> 65, explanation |-> "Relevant information found"]

\* what github_pattern matches in a word: [\w\-.]+ stops at the '/' after the
\* repository name; NoneVal when the word holds no match
GithubMatch(w) ==
    CASE w = "https://github.com/org/repo/pull/123" -> "https://github.com/org/repo"
      [] w = "https://github.com/org/repo" -> "https://github.com/org/repo"
      [] w = "https://github.com/org/repo." -> "https://github.com/org/repo."
      [] OTHER -> NoneVal

\* what the first of docs_patterns matches in a word: a host under
\* readthedocs.io or github.io and the path after it
ReadthedocsMatch(w) ==
    IF w \in {"https://proj.readthedocs.io/en/latest/",
              "https://docs.readthedocs.io/guide",
              "https://docs.readthedocs.io/guide."}
    THEN w ELSE NoneVal

\* what the second of docs_patterns matches in a word: a host docs.<name>.<tld>
\* and the path after it
DocsHostMatch(w) ==
    IF w \in {"https://docs.example.com/api",
              "https://docs.readthedocs.io/guide",
              "https://docs.readthedocs.io/guide."}
    THEN w ELSE NoneVal

\* the patterns in the order they are run over a text, with the type they tag
LinkPatterns == <<"github", "readthedocs", "docs_host">>

PatternMatch(pattern, w) ==
    CASE pattern = "github" -> GithubMatch(w)
      [] pattern = "readthedocs" -> ReadthedocsMatch(w)
      [] pattern = "docs_host" -> DocsHostMatch(w)

LinkType(pattern) == IF pattern = "github" THEN "github" ELSE "documentation"

\* match.group(0).rstrip('.,!?)')
RStrip(url) ==
    CASE url = "https://github.com/org/repo." -> "https://github.com/org/repo"
      [] url = "https://docs.readthedocs.io/guide." -> "https://docs.readthedocs.io/guide"
      [] OTHER -> url

\* for match in re.finditer(pattern, text): one pattern over one text; a
\* match is appended when its url is neither in seen_urls at the start of the
\* loop nor the url of an earlier match of the loop
LinksOfText(text, channel_name, links, pattern) ==
    LET url(i) == RStrip(PatternMatch(pattern, text[i]))
        seen_urls == {links[i].url : i \in 1..Len(links)}
        fresh == {i \in 1..Len(text) :
                    /\ PatternMatch(pattern, text[i]) # NoneVal
                    /\ url(i) \notin seen_urls
                    /\ \A j \in 1..(i - 1) : url(j) # url(i)}
        appended == SelectSeq([i \in 1..Len(text) |-> i], LAMBDA i : i \in fresh)
    IN  links \o [k \in 1..Len(appended) |->
                    [type |-> LinkType(pattern), url |-> url(appended[k]),
                     source_channel |-> channel_name]]

\* the three patterns over one message, GitHub first
LinksOfMessage(msg, links) ==
    LET github == LinksOfText(msg.text, msg.metadata.channel_name, links,
                              LinkPatterns[1])
        docs1  == LinksOfText(msg.text, msg.metadata.channel_name, github,
                              LinkPatterns[2])
    IN  LinksOfText(msg.text, msg.metadata.channel_name, docs1, LinkPatterns[3])

RECURSIVE LinksOf(_, _)
LinksOf(messages, links) ==
    IF messages = <<>> THEN links
    ELSE LinksOf(Tail(messages), LinksOfMessage(Head(messages), links))

RECURSIVE LinksSeenPerMessage(_)
\* _extract_project_links with seen_urls emptied for every message
LinksSeenPerMessage(messages) ==
    IF messages = <<>> THEN <<>>
    ELSE LinksOfMessage(Head(messages), <<>>) \o LinksSeenPerMessage(Tail(messages))

extract_project_links_seen_per_message(messages) == LinksSeenPerMessage(messages)

\* QAService._extract_project_links
extract_project_links(messages) == LinksOf(messages, <<>>)

\* w[:n] for one word; the lorem words are the prefixes of one long word, and
\* the empty word stands for a cut right after a blank
Cut(w, n) ==
    CASE n >= WordLen(w) -> w
      [] n = 0 -> ""
      [] w \in {"lorem100", "lorem200", "lorem201"} /\ n = 99 -> "lorem99"
      [] w \in {"lorem200", "lorem201"} /\ n = 100 -> "lorem100"
      [] w = "lorem201" /\ n = 200 -> "lorem200"
      [] OTHER -> w

RECURSIVE TakeChars(_, _)
\* text[:n]: whole words while they fit, then the cut word
TakeChars(text, n) ==
    IF text = <<>> \/ n < 0 THEN <<>>
    ELSE IF WordLen(Head(text)) <= n
    THEN <<Head(text)>> \o TakeChars(Tail(text), n - WordLen(Head(text)) - 1)
    ELSE <<Cut(Head(text), n)>>

\* msg['text'][:200] + '...' with one more character than the cut allows
Snippet_cut_late(text) ==
    IF CharLen(text) > SnippetLen + 1
    THEN Append(TakeChars(text, SnippetLen), "...")
    ELSE text

\* msg['text'][:200] + ('...' if len(msg['text']) > 200 else ''); the marker
\* is the last element of the result
Snippet(text) ==
    IF CharLen(text) > SnippetLen
    THEN Append(TakeChars(text, SnippetLen), "...")
    ELSE text

\* user ids of the first ten messages that lack a user_name
user_ids_to_lookup(messages) ==
    {m.metadata.user_id : m \in {mm \in Range(Take(messages, SourceCap)) :
                                    Falsy(mm.metadata.user_name)
                                    /\ ~Falsy(mm.metadata.user_id)}}

SourceOf(msg, i, workspace_id, looked_up) ==
    LET md == msg.metadata
        found == IF looked_up THEN UsersTable(workspace_id, md.user_id) ELSE NoneVal
    IN  [reference_number |-> i,
         text      |-> Snippet(msg.text),
         channel   |-> OrElse(md.channel_name, "unknown"),
         user      |-> IF ~Falsy(md.user_name) THEN md.user_name
                       ELSE IF found # NoneVal THEN found ELSE "unknown",
         timestamp |-> md.timestamp,
         distance  |-> msg.distance]

\* QAService._format_sources; db_raises is the users lookup (get_connection or
\* execute) failing, which the method does not catch
format_sources(messages, workspace_id, db_raises) ==
    LET need == user_ids_to_lookup(messages) # {}
        top == Take(messages, SourceCap)
    IN  IF need /\ db_raises
        THEN [error |-> "DatabaseError", sources |-> <<>>, lookups |-> 1]
        ELSE [error |-> NoneVal,
              sources |-> [i \in 1..Len(top) |-> SourceOf(top[i], i, workspace_id, need)],
              lookups |-> IF need THEN 1 ELSE 0]

-----------------------------------------------------------------------------
(* QAService: the answers *)

NoAnswer == [none |-> TRUE]

AnswerText(template, filters, body) ==
    [template |-> template, filters |-> filters, body |-> body]

\* the empty answer with 'elif channel_filter': one filter named at most
empty_answer_one_filter(days_back, channel_filter) ==
    LET filters_applied ==
            IF ~FalsyInt(days_back)
            THEN <<[kind |-> "last_days", days |-> days_back, channel |-> ""]>>
            ELSE IF ~Falsy(channel_filter)
            THEN <<[kind |-> "channel", days |-> 0, channel |-> channel_filter]>>
            ELSE <<>>
    IN  [answer  |-> IF filters_applied # <<>>
                     THEN AnswerText("no_substantive_messages", filters_applied, <<>>)
                     ELSE AnswerText("no_relevant_information", <<>>, <<>>),
         sources |-> <<>>,
         confidence |-> 0,
         confidence_explanation |-> "No relevant messages found after filtering",
         project_links |-> <<>>,
         context_used |-> 0]

\* qa_service.py:94-115  the answer when no message survives
empty_answer(days_back, channel_filter) ==
    LET filters_applied ==
            (IF ~FalsyInt(days_back)
             THEN <<[kind |-> "last_days", days |-> days_back, channel |-> ""]>>
             ELSE <<>>)
            \o
            (IF ~Falsy(channel_filter)
             THEN <<[kind |-> "channel", days |-> 0, channel |-> channel_filter]>>
             ELSE <<>>)
    IN  [answer  |-> IF filters_applied # <<>>
                     THEN AnswerText("no_substantive_messages", filters_applied, <<>>)
                     ELSE AnswerText("no_relevant_information", <<>>, <<>>),
         sources |-> <<>>,
         confidence |-> 0,
         confidence_explanation |-> "No relevant messages found after filtering",
         project_links |-> <<>>,
         context_used |-> 0]

\* qa_service.py:361-370  the except branch of _generate_answer_with_claude
generation_error_answer(messages, workspace_id, db_raises) ==
    LET fs == format_sources(messages, workspace_id, db_raises)
    IN  IF fs.error # NoneVal
        THEN [error |-> fs.error, db_failed |-> TRUE, answer |-> NoAnswer]
        ELSE [error |-> NoneVal, db_failed |-> FALSE,
              answer |-> [answer  |-> AnswerText("generation_error", <<>>, <<>>),
                          sources |-> fs.sources,
                          confidence |-> 0,
                          confidence_explanation |-> "Error",
                          project_links |-> <<>>,
                          context_used |-> Len(messages)]]

\* QAService._generate_answer_with_claude; gen.raises is the generation call
\* failing, db_raises1/db_raises2 the users lookup failing in the try block
\* and in the except block
generate_answer_with_claude(messages, workspace_id, gen, db_raises1, db_raises2) ==
    IF gen.raises
    THEN generation_error_answer(messages, workspace_id, db_raises2)
    ELSE LET c == extract_confidence(gen.out)
             project_links == extract_project_links(messages)
             fs == format_sources(messages, workspace_id, db_raises1)
         IN  IF fs.error # NoneVal
             THEN [generation_error_answer(messages, workspace_id, db_raises2)
                      EXCEPT !.db_failed = TRUE]
             ELSE [error |-> NoneVal, db_failed |-> FALSE,
                   answer |-> [answer  |-> AnswerText("generated", <<>>, gen.out.body),
                               sources |-> fs.sources,
                               confidence |-> c.confidence,
                               confidence_explanation |-> c.explanation,
                               project_links |-> project_links,
                               context_used |-> Len(messages),
                               model |-> "claude-3-5-sonnet"]]

\* QAService._generate_mock_answer
generate_mock_answer(messages, workspace_id, db_raises) ==
    LET fs == format_sources(messages, workspace_id, db_raises)
    IN  IF fs.error # NoneVal
        THEN [error |-> fs.error, db_failed |-> TRUE, answer |-> NoAnswer]
        ELSE [error |-> NoneVal, db_failed |-> FALSE,
              answer |-> [answer  |-> AnswerText("mock", <<>>, messages[1].text),
                          sources |-> fs.sources,
                          confidence |-> MockConfidence,
                          confidence_explanation |-> "Mock mode - medium confidence estimate",
                          project_links |-> extract_project_links(messages),
                          context_used |-> Len(messages),
                          model |-> "mock"]]

-----------------------------------------------------------------------------
(* Workspace authorisation middleware *)

\* api/routes/qa.py:14-19  the development stand-in for get_current_user
get_current_user == [user_id |-> 1, org_id |-> DevOrgId]

RECURSIVE SetToSeq(_)
SetToSeq(S) ==
    IF S = {} THEN <<>>
    ELSE LET x == CHOOSE y \in S : TRUE IN <<x>> \o SetToSeq(S \ {x})

\* get_workspace_ids_for_org: [] when the query fails
get_workspace_ids_for_org(table, org_id, db_raises) ==
    IF db_raises THEN <<>>
    ELSE SetToSeq({row.workspace_id : row \in
                     {r \in table : r.org_id = org_id /\ r.is_active}})

\* verify_workspace_access: the status of the HTTPException, 200 when none
verify_workspace_access(table, workspace_id, org_id) ==
    IF Falsy(workspace_id) THEN 400
    ELSE IF org_id = 0 THEN 400
    ELSE IF ~\E r \in table : r.workspace_id = workspace_id THEN 404
    ELSE IF ~\E r \in table : r.org_id = org_id /\ r.workspace_id = workspace_id
                              /\ r.is_active THEN 403
    ELSE 200

-----------------------------------------------------------------------------
(* BackfillService *)

BuildWord(i) ==
    CASE i = 1 -> "b01" [] i = 2 -> "b02" [] i = 3 -> "b03" [] i = 4 -> "b04"
      [] i = 5 -> "b05" [] i = 6 -> "b06" [] i = 7 -> "b07" [] i = 8 -> "b08"
      [] i = 9 -> "b09" [] i = 10 -> "b10" [] i = 11 -> "b11" [] i = 12 -> "b12"
      [] OTHER -> "b13"

\* the history conversations_history returns for the backfilled channel
History ==
    [i \in 1..HistoryLen |->
        [ts |-> Now - i + 1, user |-> IF i % 2 = 1 THEN "U1" ELSE "U2",
         text |-> IF i = 2 THEN PinText
                  ELSE IF i % 3 = 0 THEN <<"deploy", "finished", "build", BuildWord(i), "ok">>
                  ELSE <<"deploy", "finished", "build", BuildWord(i)>>]]

\* BackfillService._get_user_info
backfill_user_map(user_id) == IF user_id = "U1" THEN "alice" ELSE "unknown"

RECURSIVE UpsertAll(_, _)
UpsertAll(coll, docs) ==
    IF docs = <<>> THEN coll
    ELSE UpsertAll(collection_upsert(coll, Head(docs)), Tail(docs))

\* BackfillService._store_messages
store_messages(store, workspace_id, messages, channel_id, channel_name) ==
    IF messages = <<>> THEN store
    ELSE LET opened_store == get_or_create_collection(store, workspace_id)
             name == collection_name(workspace_id)
             docs == [i \in 1..Len(messages) |->
                        [id   |-> <<workspace_id, channel_id, messages[i].ts>>,
                         text |-> messages[i].text,
                         metadata |->
                            [workspace_id |-> workspace_id,
                             channel_id   |-> channel_id,
                             user_id      |-> messages[i].user,
                             timestamp    |-> messages[i].ts,
                             channel_name |-> channel_name,
                             user_name    |-> backfill_user_map(messages[i].user)]]]
         IN  [opened_store EXCEPT ![name] = UpsertAll(@, docs)]

-----------------------------------------------------------------------------
(* State *)

NoReq == [entry |-> "none", workspace_id |-> NoneVal, question |-> <<>>, n |-> 0,
          channel_filter |-> NoneVal, days_back |-> NoDays, where_filter |-> NoFilter,
          workspace_ids |-> <<>>, resolved |-> NoneVal]

NoEngine == [workspace_id |-> NoneVal, client |-> "unset"]

NoWork == [days_back |-> NoDays, channel_filter |-> NoneVal, candidates |-> <<>>,
           survivors |-> <<>>, context |-> <<>>, gen_raised |-> FALSE,
           lookup_failed |-> FALSE, gen_calls |-> 0]

NoResult == [kind |-> "none", error |-> NoneVal, value |-> NoAnswer]

\* DatabaseConnection before initialize_pool: _connection_pool is None (0) and
\* no pool has been created; running is the task the event loop is running
NoDb == [connection_pool |-> 0, pools |-> <<>>, running |-> "none"]

\* log is what became of _log_query_usage, "none" while it has not run
NoHttp == [status |-> 0, log |-> "none"]

Questions ==
    { <<"what", "prs", "are", "open?">>,
      <<"what", "happened", "yesterday", "in", "#general">> }

LiveDocs(store) ==
    {d \in UNION {Range(store[c]) : c \in DOMAIN store} : Len(d.id) = 2}

Init ==
    /\ chroma = <<>>
    /\ workspaces \in WorkspaceTables
    /\ message_metadata = <<>>
    /\ pc = "idle"
    /\ req = NoReq
    /\ engine = NoEngine
    /\ work = NoWork
    /\ result = NoResult
    /\ http = NoHttp
    /\ opened = <<>>
    /\ queries = <<>>
    /\ db = NoDb

pipeline == <<pc, req, engine, work, result, http, opened, queries, db>>

\* INSERT INTO message_metadata ... ON CONFLICT (workspace_id, slack_ts) DO
\* UPDATE SET channel_name, user_name: the table in insertion order, message_id
\* the serial number of the row
upsert_metadata(rows, m) ==
    IF \E i \in 1..Len(rows) : rows[i].workspace_id = m.workspace_id
                                /\ rows[i].slack_ts = m.slack_ts
    THEN [i \in 1..Len(rows) |->
            IF rows[i].workspace_id = m.workspace_id /\ rows[i].slack_ts = m.slack_ts
            THEN [rows[i] EXCEPT !.channel_name = m.channel_name,
                                 !.user_name = m.user_name]
            ELSE rows[i]]
    ELSE Append(rows, [message_id   |-> Len(rows) + 1,
                       workspace_id |-> m.workspace_id,
                       slack_ts     |-> m.slack_ts,
                       channel_id   |-> m.channel_id,
                       channel_name |-> m.channel_name,
                       user_id      |-> m.user_id,
                       user_name    |-> m.user_name,
                       created_at   |-> Now,
                       edited_at    |-> NoTs,
                       reaction_count |-> 0])

\* the live listener stores one message of the feed (SlackListener._store_message):
\* the metadata row, then the text in the vector store
AddMessage(m) ==
    /\ pc = "idle"
    /\ Cardinality(LiveDocs(chroma)) < MaxDocs
    /\ message_metadata' = upsert_metadata(message_metadata, m)
    /\ chroma' = add_message(chroma, m.workspace_id, m)
    /\ UNCHANGED <<workspaces, pipeline>>

\* a backfill stores the history of channel engineering
Backfill(workspace_id) ==
    /\ pc = "idle"
    /\ chroma' = store_messages(chroma, workspace_id, History, "C9", "engineering")
    /\ UNCHANGED <<workspaces, message_metadata, pipeline>>

\* the message with the workspace_id its caller wrote into the metadata dict
WithMetadataWorkspace(m, claimed) ==
    [k \in DOMAIN m \cup {"metadata_workspace_id"} |->
        IF k = "metadata_workspace_id" THEN claimed ELSE m[k]]

\* a caller (a script, a test) calls ChromaDBClient.add_message itself
AddMessageDirect(workspace_id, m, claimed) ==
    /\ pc = "idle"
    /\ Cardinality(LiveDocs(chroma)) < MaxDocs
    /\ chroma' = add_message(chroma, workspace_id, WithMetadataWorkspace(m, claimed))
    /\ req' = [NoReq EXCEPT !.entry = "add", !.workspace_id = workspace_id,
                            !.resolved = claimed]
    /\ pc' = "responded"
    /\ UNCHANGED <<workspaces, message_metadata, engine, work, result, http, opened, queries, db>>

\* QAService.__init__ (and QueryService.__init__ under it): the engine or the
\* isolation error.  Whether ANTHROPIC_API_KEY is set is first read by the
\* generation step and is drawn there.
construct_qa_service(workspace_id) ==
    IF Falsy(workspace_id)
    THEN [error |-> "ValueError", engine |-> NoEngine]
    ELSE [error |-> NoneVal,
          engine |-> [workspace_id |-> workspace_id, client |-> "unset"]]

\* the workspace id the route hands to QAService
route_workspace_argument(workspace_id) == OrElse(workspace_id, DefaultWorkspace)

ContextSizes == (1..MaxContext) \cup {HistoryLen}

\* POST /ask up to the construction of QAService (api/routes/qa.py:39-57)
AskEndpoint(request_workspace_id, db_raises) ==
    /\ pc = "idle"
    /\ LET org_id == get_current_user.org_id
           workspace_ids == get_workspace_ids_for_org(workspaces, org_id, db_raises)
           status == IF workspace_ids # <<>> /\ ~Falsy(request_workspace_id)
                     THEN verify_workspace_access(workspaces, request_workspace_id, org_id)
                     ELSE 200
           workspace_id == IF workspace_ids = <<>> THEN NoneVal
                           ELSE IF ~Falsy(request_workspace_id) THEN request_workspace_id
                           ELSE workspace_ids[1]
           qa == construct_qa_service(route_workspace_argument(workspace_id))
           r == [NoReq EXCEPT !.entry = "api", !.workspace_id = request_workspace_id,
                              !.workspace_ids = workspace_ids]
       IN  IF status # 200
           THEN /\ pc' = "responded"
                /\ req' = r
                /\ http' = [status |-> status, log |-> "none"]
                /\ UNCHANGED <<engine, result>>
           ELSE IF qa.error # NoneVal
           THEN /\ pc' = "responded"
                /\ req' = [r EXCEPT !.resolved = workspace_id]
                /\ result' = [kind |-> "error", error |-> qa.error, value |-> NoAnswer]
                /\ http' = [status |-> 500, log |-> "none"]
                /\ UNCHANGED engine
           ELSE /\ pc' = "engine"
                /\ req' = [r EXCEPT !.resolved = workspace_id]
                /\ engine' = qa.engine
                /\ UNCHANGED <<result, http>>
    /\ UNCHANGED <<chroma, workspaces, message_metadata, work, opened, queries, db>>

\* a caller in the process (slash command, script) builds QAService
Construct(workspace_id) ==
    /\ pc = "idle"
    /\ LET qa == construct_qa_service(workspace_id)
       IN  /\ req' = [NoReq EXCEPT !.entry = "direct", !.workspace_id = workspace_id,
                                   !.resolved = workspace_id]
           /\ IF qa.error # NoneVal
              THEN /\ pc' = "responded"
                   /\ result' = [kind |-> "error", error |-> qa.error, value |-> NoAnswer]
                   /\ UNCHANGED engine
              ELSE /\ pc' = "engine"
                   /\ engine' = qa.engine
                   /\ UNCHANGED result
    /\ UNCHANGED <<chroma, workspaces, message_metadata, work, http, opened, queries, db>>

WhereFilters ==
    { NoFilter, <<>>,
      [channel_name |-> "general"],
      [workspace_id |-> "W_B"],
      [workspace_id |-> "W_B", channel_name |-> "general"] }

\* a caller calls ChromaDBClient.search_messages itself
DirectSearch(workspace_id, query, n, where_filter, query_raises) ==
    /\ pc = "idle"
    /\ LET r == search_messages(chroma, workspace_id, query, n, where_filter, query_raises)
       IN  /\ chroma' = r.store
           /\ opened' = r.opened
           /\ queries' = r.queries
           /\ result' = IF r.error # NoneVal
                        THEN [kind |-> "error", error |-> r.error, value |-> NoAnswer]
                        ELSE [kind |-> "results", error |-> NoneVal, value |-> r.results]
    /\ req' = [NoReq EXCEPT !.entry = "search", !.workspace_id = workspace_id,
                            !.question = query, !.n = n, !.where_filter = where_filter,
                            !.resolved = workspace_id]
    /\ pc' = "responded"
    /\ UNCHANGED <<workspaces, message_metadata, engine, work, http, db>>

\* the explicit (channel_filter, days_back) a caller of answer_question passes
ExplicitFilters ==
    { <<NoneVal, NoDays>>, <<"", 0>>, <<"general", 2>>, <<NoneVal, 3>> }

\* answer_question up to the generation step (qa_service.py:71-118); the
\* route passes question and n_context_messages only
Retrieve(question, n, channel_arg, days_arg, query_raises) ==
    /\ pc = "engine"
    /\ req.entry = "api" => channel_arg = NoneVal /\ days_arg = NoDays
    /\ LET days_back == IF days_arg = NoDays
                        THEN detect_time_filter(question) ELSE days_arg
           channel_filter == IF channel_arg = NoneVal
                             THEN detect_channel_filter(question)
                             ELSE channel_arg
           r == semantic_search(chroma, engine.workspace_id, question,
                                n * OverFetch, channel_filter, days_back,
                                query_raises)
           relevant_messages == filter_quality_messages(r.results, n)
           w == [days_back |-> days_back, channel_filter |-> channel_filter,
                 candidates |-> r.results, survivors |-> relevant_messages,
                 context |-> <<>>, gen_raised |-> FALSE, lookup_failed |-> FALSE,
                 gen_calls |-> 0]
       IN  /\ chroma' = r.store
           /\ opened' = r.opened
           /\ queries' = r.queries
           /\ IF r.error # NoneVal
              THEN /\ pc' = "answered"
                   /\ work' = [w EXCEPT !.candidates = <<>>, !.survivors = <<>>]
                   /\ result' = [kind |-> "error", error |-> r.error, value |-> NoAnswer]
              ELSE IF relevant_messages = <<>>
              THEN /\ pc' = "answered"
                   /\ work' = w
                   /\ result' = [kind |-> "answer", error |-> NoneVal,
                                 value |-> empty_answer(days_back, channel_filter)]
              ELSE /\ pc' = "context"
                   /\ work' = [w EXCEPT !.context = build_context(relevant_messages)]
                   /\ UNCHANGED result
    /\ req' = [req EXCEPT !.question = question, !.n = n,
                          !.channel_filter = channel_arg, !.days_back = days_arg]
    /\ UNCHANGED <<workspaces, message_metadata, engine, http, db>>

\* what the generation call does: it raises, or returns one of GenTexts
GenOutcomes ==
    {[raises |-> TRUE, out |-> NoAnswer]}
        \cup {[raises |-> FALSE, out |-> g] : g \in GenTexts}

\* the generation step (qa_service.py:120-126); has_client is self.client,
\* set in __init__ from ANTHROPIC_API_KEY.  The mock answer makes no
\* generation call and has no except branch: gen and db_raises2 are not read
\* there and are pinned.
Generate(has_client, gen, db_raises1, db_raises2) ==
    /\ pc = "context"
    /\ ~has_client => gen.raises /\ ~db_raises2
    /\ LET a == IF has_client
                THEN generate_answer_with_claude(work.survivors, engine.workspace_id,
                                                 gen, db_raises1, db_raises2)
                ELSE generate_mock_answer(work.survivors, engine.workspace_id, db_raises1)
       IN  /\ result' = IF a.error # NoneVal
                        THEN [kind |-> "error", error |-> a.error, value |-> NoAnswer]
                        ELSE [kind |-> "answer", error |-> NoneVal, value |-> a.answer]
           /\ work' = [work EXCEPT !.gen_raised = has_client /\ gen.raises,
                                   !.lookup_failed = a.db_failed,
                                   !.gen_calls = @ + (IF has_client THEN 1 ELSE 0)]
    /\ engine' = [engine EXCEPT !.client = IF has_client THEN "anthropic" ELSE "none"]
    /\ pc' = "answered"
    /\ UNCHANGED <<chroma, workspaces, message_metadata, req, http, opened, queries, db>>

\* _log_query_usage: get_connection raises before the try block; a write or
\* the commit raises and the except block rolls back; the rollback raises too
LogOutcomes == {"ok", "connection_fails", "write_fails", "rollback_fails"}

\* answer_question has returned or raised: the route builds its response and
\* logs the usage (api/routes/qa.py:63-102); another caller just has the result
Respond(log) ==
    /\ pc = "answered"
    /\ req.entry # "api" => log = "ok"
    /\ pc' = "responded"
    /\ http' = IF req.entry # "api" THEN http
               ELSE IF result.kind = "error" THEN [status |-> 500, log |-> "none"]
               ELSE IF log \in {"connection_fails", "rollback_fails"}
               THEN [status |-> 500, log |-> log]
               ELSE [status |-> 200, log |-> log]
    /\ UNCHANGED <<chroma, workspaces, message_metadata, req, engine, work, result, opened, queries, db>>

\* the request is over
Finish ==
    /\ pc = "responded"
    /\ pc' = "idle"
    /\ req' = NoReq
    /\ engine' = NoEngine
    /\ work' = NoWork
    /\ result' = NoResult
    /\ http' = NoHttp
    /\ opened' = <<>>
    /\ queries' = <<>>
    /\ UNCHANGED <<chroma, workspaces, message_metadata, db>>

BackfillTenants == {"W_A"}

Next ==
    \/ \E m \in Feed : AddMessage(m)
    \/ \E m \in ScriptFeed : AddMessageDirect(m.workspace_id, m, m.workspace_id)
    \/ \E w \in BackfillTenants : Backfill(w)
    \/ \E w \in {NoneVal, "", "W_A", "W_B", "W_X"}, f \in BOOLEAN : AskEndpoint(w, f)
    \/ \E w \in {NoneVal, "", "W_A", "W_B"} : Construct(w)
    \/ \E w \in {NoneVal, "", "W_A", "W_B"}, q \in Questions, n \in 1..MaxContext,
          f \in WhereFilters, x \in BOOLEAN :
            DirectSearch(w, q, n, f, x)
    \/ \E q \in Questions, n \in ContextSizes, f \in ExplicitFilters, x \in BOOLEAN :
            Retrieve(q, n, f[1], f[2], x)
    \/ \E c \in BOOLEAN, g \in GenOutcomes, d1 \in BOOLEAN, d2 \in BOOLEAN :
            Generate(c, g, d1, d2)
    \/ \E l \in LogOutcomes : Respond(l)
    \/ Finish

Spec == Init /\ [][Next]_vars

TypeOK ==
    /\ pc \in {"idle", "engine", "context", "answered", "responded"}
    /\ Len(opened) <= 1
    /\ Len(queries) <= 1

-----------------------------------------------------------------------------
(* _filter_quality_messages called on its own *)

\* texts of candidates: too short, a pin notice, a join notice typed with
\* capitals, three mentions, one mention in two words, two mentions written as
\* one word among three, and an ordinary message
ShortText == <<"ok">>

ShoutedJoinText == <<"Alice", "Has", "Joined", "The", "Channel">>

MentionsOnlyText == <<"<@U1>", "<@U2>", "<@U3>">>

HalfMentionText == <<"<@U1>", "finished">>

PackedMentionsText == <<"<@U1><@U2>", "deploy", "finished">>

FilterTexts ==
    { ShortText, PinText, ShoutedJoinText, MentionsOnlyText, HalfMentionText,
      PackedMentionsText, DeployText }

\* longest candidate list handed to the filter
MaxCandidates == 3

\* the filter reads the 'text' key of a candidate only
CandidateLists ==
    UNION { [1..k -> {[text |-> t] : t \in FilterTexts}] : k \in 0..MaxCandidates }

FilterInit ==
    /\ chroma = <<>>
    /\ workspaces = CHOOSE t \in WorkspaceTables : \A r \in t : r.is_active
    /\ message_metadata = <<>>
    /\ pc = "filter"
    /\ req = NoReq
    /\ engine = NoEngine
    /\ work = NoWork
    /\ result = NoResult
    /\ http = NoHttp
    /\ opened = <<>>
    /\ queries = <<>>
    /\ db = NoDb

\* one call _filter_quality_messages(messages, limit)
FilterCall(messages, limit) ==
    /\ pc = "filter"
    /\ pc' = "filtered"
    /\ req' = [NoReq EXCEPT !.entry = "filter", !.n = limit]
    /\ work' = [NoWork EXCEPT !.candidates = messages,
                              !.survivors = filter_quality_messages(messages, limit)]
    /\ result' = [kind |-> "filtered", error |-> NoneVal,
                  value |-> [examined |-> examined_candidates(messages, limit),
                             again |-> <<>>]]
    /\ UNCHANGED <<chroma, workspaces, message_metadata, engine, http, opened, queries, db>>

\* a second call, on the output of the first, with the same limit
FilterAgain ==
    /\ pc = "filtered"
    /\ pc' = "refiltered"
    /\ result' = [kind |-> "refiltered", error |-> NoneVal,
                  value |-> [examined |-> examined_candidates(work.survivors, req.n),
                             again |-> filter_quality_messages(work.survivors, req.n)]]
    /\ UNCHANGED <<chroma, workspaces, message_metadata, req, engine, work, http, opened, queries, db>>

FilterReturn ==
    /\ pc \in {"filtered", "refiltered"}
    /\ pc' = "filter"
    /\ req' = NoReq
    /\ work' = NoWork
    /\ result' = NoResult
    /\ UNCHANGED <<chroma, workspaces, message_metadata, engine, http, opened, queries, db>>

FilterNext ==
    \/ \E messages \in CandidateLists, limit \in 0..MaxCandidates :
          FilterCall(messages, limit)
    \/ FilterAgain
    \/ FilterReturn

FilterSpec == FilterInit /\ [][FilterNext]_vars

-----------------------------------------------------------------------------
(* Ingestion, deletion and the structured lookups of QueryService *)

\* reactions one message collects: distinct (user, reaction_name) pairs
MaxReactions == 2

\* SlackListener._store_reaction: a reaction row for the message of that
\* (workspace_id, slack_ts); nothing when the message has no metadata row
store_reaction(rows, workspace_id, slack_ts) ==
    [i \in 1..Len(rows) |->
        IF rows[i].workspace_id = workspace_id /\ rows[i].slack_ts = slack_ts
        THEN [rows[i] EXCEPT !.reaction_count = @ + 1]
        ELSE rows[i]]

\* a reaction_added event for a stored message
StoreReaction(workspace_id, slack_ts) ==
    /\ pc = "idle"
    /\ \E i \in 1..Len(message_metadata) :
          /\ message_metadata[i].workspace_id = workspace_id
          /\ message_metadata[i].slack_ts = slack_ts
          /\ message_metadata[i].reaction_count < MaxReactions
    /\ message_metadata' = store_reaction(message_metadata, workspace_id, slack_ts)
    /\ UNCHANGED <<chroma, workspaces, pipeline>>

RECURSIVE ByTimestamp(_)
\* timestamps, latest first
ByTimestamp(ts) ==
    IF ts = <<>> THEN <<>>
    ELSE LET top == CHOOSE i \in 1..Len(ts) : \A j \in 1..Len(ts) : ts[j] <= ts[i]
         IN  <<ts[top]>> \o ByTimestamp([k \in 1..(Len(ts) - 1) |->
                                            IF k < top THEN ts[k] ELSE ts[k + 1]])

\* the feed messages of a workspace, latest first
FeedOf(workspace_id) ==
    LET own == {m \in Feed : m.workspace_id = workspace_id}
        ranked == SetToSeq({m.slack_ts : m \in own})
        sorted == ByTimestamp(ranked)
    IN  [i \in 1..Len(sorted) |-> CHOOSE m \in own : m.slack_ts = sorted[i]]

\* a caller calls ChromaDBClient.add_messages_batch with the workspace's feed
AddBatch(workspace_id, claimed) ==
    /\ pc = "idle"
    /\ Cardinality(LiveDocs(chroma)) + Len(FeedOf(workspace_id)) <= MaxDocs
    /\ chroma' = add_messages_batch(chroma, workspace_id,
                    [i \in 1..Len(FeedOf(workspace_id)) |->
                        WithMetadataWorkspace(FeedOf(workspace_id)[i], claimed)])
    /\ req' = [NoReq EXCEPT !.entry = "batch", !.workspace_id = workspace_id,
                            !.resolved = claimed]
    /\ pc' = "responded"
    /\ UNCHANGED <<workspaces, message_metadata, engine, work, result, http, opened, queries, db>>

\* a caller calls ChromaDBClient.delete_message for a stored message
DeleteMessage(workspace_id, slack_ts) ==
    /\ pc = "idle"
    /\ chroma' = delete_message(chroma, workspace_id, slack_ts)
    /\ req' = [NoReq EXCEPT !.entry = "delete", !.workspace_id = workspace_id]
    /\ pc' = "responded"
    /\ UNCHANGED <<workspaces, message_metadata, engine, work, result, http, opened, queries, db>>

\* (days_back, limit, channel) of a lookup
LookupArgs ==
    { <<7, 1, NoneVal>>, <<7, 10, NoneVal>>, <<7, 10, "general">>, <<0, 10, NoneVal>> }

\* QueryService(workspace_id).get_recent_messages(days_back, limit, channel_filter)
GetRecent(workspace_id, days_back, limit, channel_filter) ==
    /\ pc = "idle"
    /\ LET r == get_recent_messages(chroma, message_metadata, workspace_id,
                                    days_back, limit, channel_filter)
       IN  /\ chroma' = r.store
           /\ work' = [NoWork EXCEPT !.candidates = r.rows]
           /\ result' = [kind |-> "recent", error |-> NoneVal, value |-> r.enriched]
    /\ req' = [NoReq EXCEPT !.entry = "lookup", !.workspace_id = workspace_id,
                            !.n = limit, !.days_back = days_back,
                            !.channel_filter = channel_filter]
    /\ pc' = "responded"
    /\ UNCHANGED <<workspaces, message_metadata, engine, http, opened, queries, db>>

\* QueryService(workspace_id).get_most_reacted_messages(days_back, limit, channel_id)
GetMostReacted(workspace_id, days_back, limit, channel_id) ==
    /\ pc = "idle"
    /\ LET r == get_most_reacted_messages(chroma, message_metadata, workspace_id,
                                          days_back, limit, channel_id)
       IN  /\ chroma' = r.store
           /\ work' = [NoWork EXCEPT !.candidates = r.rows]
           /\ result' = [kind |-> "most_reacted", error |-> NoneVal, value |-> r.enriched]
    /\ req' = [NoReq EXCEPT !.entry = "lookup", !.workspace_id = workspace_id,
                            !.n = limit, !.days_back = days_back,
                            !.channel_filter = channel_id]
    /\ pc' = "responded"
    /\ UNCHANGED <<workspaces, message_metadata, engine, http, opened, queries, db>>

StoreInit ==
    /\ chroma = <<>>
    /\ workspaces = CHOOSE t \in WorkspaceTables : \A r \in t : r.is_active
    /\ message_metadata = <<>>
    /\ pc = "idle"
    /\ req = NoReq
    /\ engine = NoEngine
    /\ work = NoWork
    /\ result = NoResult
    /\ http = NoHttp
    /\ opened = <<>>
    /\ queries = <<>>
    /\ db = NoDb

StoreNext ==
    \/ \E m \in Feed : AddMessage(m)
    \/ \E m \in Feed, c \in Tenants \cup {NoneVal} : AddMessageDirect(m.workspace_id, m, c)
    \/ \E w \in Tenants, c \in Tenants \cup {NoneVal} : AddBatch(w, c)
    \/ \E w \in BackfillTenants : Backfill(w)
    \/ \E d \in LiveDocs(chroma) : DeleteMessage(d.id[1], d.id[2])
    \/ \E m \in Feed : StoreReaction(m.workspace_id, m.slack_ts)
    \/ \E w \in Tenants, a \in LookupArgs : GetRecent(w, a[1], a[2], a[3])
    \/ \E w \in Tenants, a \in LookupArgs :
          GetMostReacted(w, a[1], a[2], IF a[3] = NoneVal THEN NoneVal ELSE "C1")
    \/ Finish

StoreSpec == StoreInit /\ [][StoreNext]_vars

-----------------------------------------------------------------------------
(* answer_question's inference of the filters, on its own *)

\* longest question, in words
MaxWords == 3

QuestionWords ==
    {"what", "Today", "yesterday", "Last", "this", "week", "weekend", "month",
     "recently"}

QuestionTexts == UNION { [1..k -> QuestionWords] : k \in 0..MaxWords }

\* days_back a caller passes: None, 0, a number of days
DaysArgs == {NoDays, 0, 5}

InferInit ==
    /\ chroma = <<>>
    /\ workspaces = CHOOSE t \in WorkspaceTables : \A r \in t : r.is_active
    /\ message_metadata = <<>>
    /\ pc = "infer"
    /\ req = NoReq
    /\ engine = NoEngine
    /\ work = NoWork
    /\ result = NoResult
    /\ http = NoHttp
    /\ opened = <<>>
    /\ queries = <<>>
    /\ db = NoDb

\* qa_service.py:73-79  the two 'if ... is None' inferences
InferFilters(question, channel_arg, days_arg) ==
    /\ pc = "infer"
    /\ pc' = "inferred"
    /\ req' = [NoReq EXCEPT !.entry = "infer", !.question = question,
                            !.channel_filter = channel_arg, !.days_back = days_arg]
    /\ work' = [NoWork EXCEPT
                  !.days_back = IF days_arg = NoDays
                                THEN detect_time_filter(question) ELSE days_arg,
                  !.channel_filter = IF channel_arg = NoneVal
                                     THEN detect_channel_filter(question)
                                     ELSE channel_arg]
    /\ UNCHANGED <<chroma, workspaces, message_metadata, engine, result, http,
                   opened, queries, db>>

InferReturn ==
    /\ pc = "inferred"
    /\ pc' = "infer"
    /\ req' = NoReq
    /\ work' = NoWork
    /\ UNCHANGED <<chroma, workspaces, message_metadata, engine, result, http,
                   opened, queries, db>>

InferNext ==
    \/ \E q \in QuestionTexts, d \in DaysArgs : InferFilters(q, NoneVal, d)
    \/ InferReturn

InferSpec == InferInit /\ [][InferNext]_vars

-----------------------------------------------------------------------------
(* _extract_confidence, on its own *)

\* longest generated answer, in words
MaxAnswerWords == 3

AnswerWords ==
    {"the", "couldn't", "find", "Not", "sure", "unclear", "Might", "seems",
     "information"}

\* generated texts without and with a confidence line
AnswerTexts ==
    { [body |-> b, conf |-> c, rationale |-> IF c = NoDays THEN "" ELSE "well supported"] :
        b \in UNION { [1..k -> AnswerWords] : k \in 0..MaxAnswerWords },
        c \in {NoDays, 85} }

ConfidenceInit ==
    /\ chroma = <<>>
    /\ workspaces = CHOOSE t \in WorkspaceTables : \A r \in t : r.is_active
    /\ message_metadata = <<>>
    /\ pc = "extract"
    /\ req = NoReq
    /\ engine = NoEngine
    /\ work = NoWork
    /\ result = NoResult
    /\ http = NoHttp
    /\ opened = <<>>
    /\ queries = <<>>
    /\ db = NoDb

\* qa_service.py:328  confidence, confidence_explanation = self._extract_confidence(answer_text)
ExtractConfidence(gen) ==
    /\ pc = "extract"
    /\ pc' = "extracted"
    /\ req' = [NoReq EXCEPT !.entry = "extract"]
    /\ result' = [kind |-> "extracted", error |-> NoneVal,
                  value |-> [answer |-> gen.body, conf_line |-> gen.conf,
                             confidence |-> extract_confidence(gen).confidence,
                             confidence_explanation |-> extract_confidence(gen).explanation]]
    /\ UNCHANGED <<chroma, workspaces, message_metadata, engine, work, http,
                   opened, queries, db>>

ExtractReturn ==
    /\ pc = "extracted"
    /\ pc' = "extract"
    /\ req' = NoReq
    /\ result' = NoResult
    /\ UNCHANGED <<chroma, workspaces, message_metadata, engine, work, http,
                   opened, queries, db>>

ConfidenceNext ==
    \/ \E gen \in AnswerTexts : ExtractConfidence(gen)
    \/ ExtractReturn

ConfidenceSpec == ConfidenceInit /\ [][ConfidenceNext]_vars

-----------------------------------------------------------------------------
(* _format_sources, on its own *)

\* longest survivor list handed to _format_sources
MaxSurvivors == 11

\* texts of 23, 200, 201, 201, 200 and 202 characters; in the last one
\* character 200 is a blank
SnippetTexts ==
    << DeployText, <<"lorem200">>, <<"lorem201">>, <<"lorem100", "lorem100">>,
       <<"lorem100", "lorem99">>, <<"lorem99", "lorem99", "ok">> >>

\* k survivors of workspace W_A, the texts taken in turn from place off on
SurvivorList(k, off, user_name) ==
    [i \in 1..k |->
        [id |-> <<"W_A", Now - i>>,
         text |-> SnippetTexts[((i + off) % Len(SnippetTexts)) + 1],
         metadata |-> [workspace_id |-> "W_A", channel_name |-> "general",
                       user_id |-> "U2", user_name |-> user_name,
                       timestamp |-> Now - i],
         distance |-> i % 3]]

SourcesInit ==
    /\ chroma = <<>>
    /\ workspaces = CHOOSE t \in WorkspaceTables : \A r \in t : r.is_active
    /\ message_metadata = <<>>
    /\ pc = "format"
    /\ req = NoReq
    /\ engine = NoEngine
    /\ work = NoWork
    /\ result = NoResult
    /\ http = NoHttp
    /\ opened = <<>>
    /\ queries = <<>>
    /\ db = NoDb

\* one call _format_sources(messages); db_raises is the users lookup failing
FormatSources(messages, db_raises) ==
    /\ pc = "format"
    /\ pc' = "formatted"
    /\ req' = [NoReq EXCEPT !.entry = "format", !.workspace_id = "W_A"]
    /\ work' = [NoWork EXCEPT !.survivors = messages,
                              !.lookup_failed = format_sources(messages, "W_A", db_raises).error # NoneVal]
    /\ result' = [kind |-> "formatted",
                  error |-> format_sources(messages, "W_A", db_raises).error,
                  value |-> [sources |-> format_sources(messages, "W_A", db_raises).sources]]
    /\ UNCHANGED <<chroma, workspaces, message_metadata, engine, http, opened, queries, db>>

FormatReturn ==
    /\ pc = "formatted"
    /\ pc' = "format"
    /\ req' = NoReq
    /\ work' = NoWork
    /\ result' = NoResult
    /\ UNCHANGED <<chroma, workspaces, message_metadata, engine, http, opened, queries, db>>

SourcesNext ==
    \/ \E k \in 0..MaxSurvivors, off \in 0..(Len(SnippetTexts) - 1),
          user_name \in {"alice", ""}, db_raises \in BOOLEAN :
            FormatSources(SurvivorList(k, off, user_name), db_raises)
    \/ FormatReturn

SourcesSpec == SourcesInit /\ [][SourcesNext]_vars

-----------------------------------------------------------------------------
(* _extract_project_links, on its own *)

\* number of freely chosen messages at the end of a list
MaxLinked == 3

\* messages before the freely chosen ones: none, or as many as sources are shown
Padding == {0, SourceCap}

\* a repository; a guide that both documentation patterns match, written with
\* a full stop; the repository with a full stop and a documentation host; a
\* readthedocs project; no link; the guide without the full stop
LinkTexts ==
    { <<"see", "https://github.com/org/repo">>,
      <<"docs", "https://docs.readthedocs.io/guide.">>,
      <<"https://github.com/org/repo.", "and", "https://docs.example.com/api">>,
      <<"https://proj.readthedocs.io/en/latest/">>,
      DeployText,
      <<"https://docs.readthedocs.io/guide">> }

LinkMessage(text) ==
    [text |-> text, metadata |-> [channel_name |-> "general"]]

LinkLists ==
    { [i \in 1..pad |-> LinkMessage(DeployText)] \o tail :
        pad \in Padding,
        tail \in UNION { [1..k -> {LinkMessage(t) : t \in LinkTexts}] : k \in 0..MaxLinked } }

LinksInit ==
    /\ chroma = <<>>
    /\ workspaces = CHOOSE t \in WorkspaceTables : \A r \in t : r.is_active
    /\ message_metadata = <<>>
    /\ pc = "link"
    /\ req = NoReq
    /\ engine = NoEngine
    /\ work = NoWork
    /\ result = NoResult
    /\ http = NoHttp
    /\ opened = <<>>
    /\ queries = <<>>
    /\ db = NoDb

\* one call _extract_project_links(messages)
ExtractLinks(messages) ==
    /\ pc = "link"
    /\ pc' = "linked"
    /\ req' = [NoReq EXCEPT !.entry = "link"]
    /\ work' = [NoWork EXCEPT !.survivors = messages]
    /\ result' = [kind |-> "linked", error |-> NoneVal,
                  value |-> [project_links |-> extract_project_links(messages)]]
    /\ UNCHANGED <<chroma, workspaces, message_metadata, engine, http, opened, queries, db>>

LinksReturn ==
    /\ pc = "linked"
    /\ pc' = "link"
    /\ req' = NoReq
    /\ work' = NoWork
    /\ result' = NoResult
    /\ UNCHANGED <<chroma, workspaces, message_metadata, engine, http, opened, queries, db>>

LinksNext ==
    \/ \E messages \in LinkLists : ExtractLinks(messages)
    \/ LinksReturn

LinksSpec == LinksInit /\ [][LinksNext]_vars

-----------------------------------------------------------------------------
(* DatabaseConnection: the class-level pool and the coroutines that use it *)

\* pools created in one run
MaxPools == 3

\* coroutines of the one event loop: start_slack_bot_for_workspace, the /ask
\* route, and a caller of QueryService.get_recent_messages
Tasks == {"bot", "ask", "recent"}

\* a task's locals: conn is the pool its connection was taken from, 0 with none
NoLocals == [conn |-> 0, raised |-> NoneVal]

\* DatabaseConnection.initialize_pool: a new SimpleConnectionPool is bound to
\* the class attribute, whatever was bound before
initialize_pool(d) ==
    [d EXCEPT !.pools = Append(@, [used |-> {}]),
              !.connection_pool = Len(d.pools) + 1]

\* DatabaseConnection.get_connection for task t: getconn() of the current pool
get_connection(d, t) ==
    LET d1 == IF d.connection_pool = 0 THEN initialize_pool(d) ELSE d
    IN  [db |-> [d1 EXCEPT !.pools[d1.connection_pool].used = @ \cup {t}],
         conn |-> d1.connection_pool]

\* DatabaseConnection.return_connection: putconn() of the current pool, which
\* raises PoolError for a connection it did not hand out
return_connection(d, conn, t) ==
    IF d.connection_pool = 0 THEN [db |-> d, error |-> NoneVal]
    ELSE IF conn = d.connection_pool /\ t \in d.pools[conn].used
    THEN [db |-> [d EXCEPT !.pools[conn].used = @ \ {t}], error |-> NoneVal]
    ELSE [db |-> d, error |-> "PoolError"]

\* the event loop runs a task from one await to the next
Runnable(t) == db.running \in {"none", t}

\* a try block left without its finally clause being run
leave_try_raising == "idle"

\* query_service.py:471  where the try block of get_recent_messages is left
\* to, by its return and by an exception alike: the finally clause
leave_try == "finally"

PoolInit ==
    /\ chroma = <<>>
    /\ workspaces = CHOOSE t \in WorkspaceTables : \A r \in t : r.is_active
    /\ message_metadata = <<>>
    /\ pc = [t \in Tasks |-> "idle"]
    /\ req = NoReq
    /\ engine = NoEngine
    /\ work = [t \in Tasks |-> NoLocals]
    /\ result = NoResult
    /\ http = NoHttp
    /\ opened = <<>>
    /\ queries = <<>>
    /\ db = initialize_pool(NoDb)

PoolFixed == <<chroma, workspaces, message_metadata, req, engine, result, http,
               opened, queries>>

\* slack_bot_service.py:159-180  get_connection, the credentials query, then
\* 'await bot_service.start()' with the connection held
BotAcquire ==
    /\ Runnable("bot") /\ pc["bot"] = "idle"
    /\ db' = [get_connection(db, "bot").db EXCEPT !.running = "none"]
    /\ work' = [work EXCEPT !["bot"] = [conn |-> get_connection(db, "bot").conn,
                                        raised |-> NoneVal]]
    /\ pc' = [pc EXCEPT !["bot"] = "starting"]
    /\ UNCHANGED PoolFixed

\* slack_bot_service.py:182-190  the await is over; finally: return_connection(conn)
BotReturn ==
    /\ Runnable("bot") /\ pc["bot"] = "starting"
    /\ LET r == return_connection(db, work["bot"].conn, "bot")
       IN  /\ db' = [r.db EXCEPT !.running = "none"]
           /\ work' = [work EXCEPT !["bot"] = [conn |-> IF r.error = NoneVal THEN 0
                                                        ELSE work["bot"].conn,
                                               raised |-> r.error]]
    /\ pc' = [pc EXCEPT !["bot"] = "idle"]
    /\ UNCHANGED PoolFixed

\* api/routes/qa.py:57  QAService(...) -> QueryService.__init__ -> initialize_pool()
AskConstruct ==
    /\ Runnable("ask") /\ pc["ask"] = "idle"
    /\ Len(db.pools) < MaxPools
    /\ db' = [initialize_pool(db) EXCEPT !.running = "ask"]
    /\ work' = [work EXCEPT !["ask"] = NoLocals]
    /\ pc' = [pc EXCEPT !["ask"] = "search"]
    /\ UNCHANGED PoolFixed

\* qa_service.py:81-110  semantic_search and the filter use no connection;
\* then the generation call is made
AskGenerate ==
    /\ Runnable("ask") /\ pc["ask"] = "search"
    /\ pc' = [pc EXCEPT !["ask"] = "generating"]
    /\ UNCHANGED <<PoolFixed, work, db>>

\* qa_service.py:526-528  the generation call is over; _format_sources takes
\* a connection when a user name is to be looked up
SourcesAcquire(lookup) ==
    /\ Runnable("ask") /\ pc["ask"] = "generating"
    /\ IF lookup
       THEN /\ db' = get_connection(db, "ask").db
            /\ work' = [work EXCEPT !["ask"].conn = get_connection(db, "ask").conn]
            /\ pc' = [pc EXCEPT !["ask"] = "sources_query"]
       ELSE /\ db' = [db EXCEPT !.running = "none"]
            /\ pc' = [pc EXCEPT !["ask"] = "idle"]
            /\ UNCHANGED work
    /\ UNCHANGED PoolFixed

\* qa_service.py:529-539  the users query, which returns or raises
SourcesQuery(outcome) ==
    /\ Runnable("ask") /\ pc["ask"] = "sources_query"
    /\ work' = [work EXCEPT !["ask"].raised = IF outcome = "ok" THEN NoneVal
                                              ELSE "DatabaseError"]
    /\ pc' = [pc EXCEPT !["ask"] = "sources_finally"]
    /\ UNCHANGED <<PoolFixed, db>>

\* qa_service.py:540-541  finally: return_connection(conn); the request ends
SourcesReturn ==
    /\ Runnable("ask") /\ pc["ask"] = "sources_finally"
    /\ LET r == return_connection(db, work["ask"].conn, "ask")
       IN  /\ db' = [r.db EXCEPT !.running = "none"]
           /\ work' = [work EXCEPT !["ask"] =
                          [conn |-> IF r.error = NoneVal THEN 0 ELSE work["ask"].conn,
                           raised |-> IF r.error # NoneVal THEN r.error
                                      ELSE work["ask"].raised]]
    /\ pc' = [pc EXCEPT !["ask"] = "idle"]
    /\ UNCHANGED PoolFixed

\* query_service.py:22-40, 422  QueryService(workspace_id), then
\* get_recent_messages takes a connection
RecentAcquire ==
    /\ Runnable("recent") /\ pc["recent"] = "idle"
    /\ Len(db.pools) < MaxPools
    /\ db' = [get_connection(initialize_pool(db), "recent").db EXCEPT !.running = "recent"]
    /\ work' = [work EXCEPT !["recent"] =
                   [conn |-> get_connection(initialize_pool(db), "recent").conn,
                    raised |-> NoneVal]]
    /\ pc' = [pc EXCEPT !["recent"] = "query"]
    /\ UNCHANGED PoolFixed

\* query_service.py:423-451  the SELECT, which returns rows or raises
RecentQuery(outcome) ==
    /\ Runnable("recent") /\ pc["recent"] = "query"
    /\ work' = [work EXCEPT !["recent"].raised = IF outcome = "ok" THEN NoneVal
                                                 ELSE "DatabaseError"]
    /\ pc' = [pc EXCEPT !["recent"] = IF outcome = "ok" THEN "enrich" ELSE leave_try]
    /\ UNCHANGED <<PoolFixed, db>>

\* query_service.py:453-469  the get_message loop, which returns or raises
RecentEnrich(outcome) ==
    /\ Runnable("recent") /\ pc["recent"] = "enrich"
    /\ work' = [work EXCEPT !["recent"].raised = IF outcome = "ok" THEN NoneVal
                                                 ELSE "ChromaError"]
    /\ pc' = [pc EXCEPT !["recent"] = leave_try]
    /\ UNCHANGED <<PoolFixed, db>>

\* query_service.py:471-472  finally: return_connection(conn)
RecentReturn ==
    /\ Runnable("recent") /\ pc["recent"] = "finally"
    /\ LET r == return_connection(db, work["recent"].conn, "recent")
       IN  /\ db' = [r.db EXCEPT !.running = "none"]
           /\ work' = [work EXCEPT !["recent"] =
                          [conn |-> IF r.error = NoneVal THEN 0 ELSE work["recent"].conn,
                           raised |-> IF r.error # NoneVal THEN r.error
                                      ELSE work["recent"].raised]]
    /\ pc' = [pc EXCEPT !["recent"] = "idle"]
    /\ UNCHANGED PoolFixed

PoolNext ==
    \/ BotAcquire
    \/ BotReturn
    \/ AskConstruct
    \/ AskGenerate
    \/ \E lookup \in BOOLEAN : SourcesAcquire(lookup)
    \/ \E outcome \in {"ok", "raises"} : SourcesQuery(outcome)
    \/ SourcesReturn
    \/ RecentAcquire
    \/ \E outcome \in {"ok", "raises"} : RecentQuery(outcome)
    \/ \E outcome \in {"ok", "raises"} : RecentEnrich(outcome)
    \/ RecentReturn

PoolSpec == PoolInit /\ [][PoolNext]_vars

-----------------------------------------------------------------------------
(* The events of one message, as the listener and the sync script store them *)

\* events handled in one run
MaxEvents == 3

\* slack_listener.py:100  subtypes handle_message returns on
IgnoredSubtypes == {"bot_message", "message_changed", "message_deleted"}

\* a message as first written, and after its author edited it
Original ==
    [workspace_id |-> "W_A", slack_ts |-> Now - 1, channel_id |-> "C1",
     channel_name |-> "general", user_id |-> "U1", user_name |-> "alice",
     text |-> DeployText, edited_at |-> NoTs]

Edited == [Original EXCEPT !.text = <<"deploy", "finished", "today">>,
                           !.edited_at = Now]

\* the step of _store_message that raises, "none" when none does
FailurePoints == {"none", "insert", "add", "update", "commit"}

\* _store_message with the INSERT committed by itself, before the add
store_message_autocommit(store, rows, m, fail) ==
    CASE fail = "insert" -> [store |-> store, rows |-> rows, error |-> "DatabaseError"]
      [] fail = "add" -> [store |-> store, rows |-> upsert_metadata(rows, m),
                          error |-> "ChromaError"]
      [] fail \in {"update", "commit"} ->
            [store |-> add_message(store, m.workspace_id, m),
             rows |-> upsert_metadata(rows, m), error |-> "DatabaseError"]
      [] OTHER -> [store |-> add_message(store, m.workspace_id, m),
                   rows |-> upsert_metadata(rows, m), error |-> NoneVal]

\* SlackListener._store_message: INSERT, add_message, UPDATE, commit in one
\* transaction; an exception rolls the transaction back (the add is outside
\* it) and is logged
store_message(store, rows, m, fail) ==
    CASE fail = "insert" -> [store |-> store, rows |-> rows, error |-> "DatabaseError"]
      [] fail = "add" -> [store |-> store, rows |-> rows, error |-> "ChromaError"]
      [] fail \in {"update", "commit"} ->
            [store |-> add_message(store, m.workspace_id, m), rows |-> rows,
             error |-> "DatabaseError"]
      [] OTHER -> [store |-> add_message(store, m.workspace_id, m),
                   rows |-> upsert_metadata(rows, m), error |-> NoneVal]

\* MessageRepository.upsert_message: ON CONFLICT (workspace_id, slack_ts) DO
\* UPDATE SET ... edited_at (of the columns kept here)
upsert_message(rows, m) ==
    IF \E i \in 1..Len(rows) : rows[i].workspace_id = m.workspace_id
                                /\ rows[i].slack_ts = m.slack_ts
    THEN [i \in 1..Len(rows) |->
            IF rows[i].workspace_id = m.workspace_id /\ rows[i].slack_ts = m.slack_ts
            THEN [rows[i] EXCEPT !.edited_at = m.edited_at]
            ELSE rows[i]]
    ELSE [upsert_metadata(rows, m) EXCEPT ![Len(rows) + 1].edited_at = m.edited_at]

\* whether the stores already hold exactly this message
Stored(store, rows, m) ==
    /\ get_message(store, m.workspace_id, m.slack_ts) # NoDoc
    /\ get_message(store, m.workspace_id, m.slack_ts).text = m.text
    /\ \E i \in 1..Len(rows) :
          /\ rows[i].workspace_id = m.workspace_id /\ rows[i].slack_ts = m.slack_ts
          /\ rows[i].channel_name = m.channel_name /\ rows[i].user_name = m.user_name
          /\ rows[i].edited_at = m.edited_at

IngestInit ==
    /\ chroma = <<>>
    /\ workspaces = CHOOSE t \in WorkspaceTables : \A r \in t : r.is_active
    /\ message_metadata = <<>>
    /\ pc = "idle"
    /\ req = NoReq
    /\ engine = NoEngine
    /\ work = NoWork
    /\ result = NoResult
    /\ http = NoHttp
    /\ opened = <<>>
    /\ queries = <<>>
    /\ db = NoDb

\* slack_listener.py:95-148  handle_message for an event of the message: the
\* ignored subtypes return at once, the others go to _store_message
HandleMessage(m, subtype, fail) ==
    /\ pc = "idle"
    /\ req.n < MaxEvents
    /\ LET r == IF subtype \in IgnoredSubtypes
                THEN [store |-> chroma, rows |-> message_metadata, error |-> NoneVal]
                ELSE store_message(chroma, message_metadata, m, fail)
       IN  /\ chroma' = r.store
           /\ message_metadata' = r.rows
           /\ result' = [kind |-> "ingested", error |-> r.error,
                         value |-> [event |-> m, subtype |-> subtype, fail |-> fail,
                                    path |-> "listener",
                                    again |-> Stored(chroma, message_metadata, m),
                                    changed |-> (r.store # chroma
                                                 \/ r.rows # message_metadata)]]
    /\ req' = [req EXCEPT !.entry = "ingest", !.n = @ + 1]
    /\ pc' = "responded"
    /\ UNCHANGED <<workspaces, engine, work, http, opened, queries, db>>

\* scripts/backfill_chromadb.py:119-135  the sync script reads the message
\* from the channel history: upsert_message, then add_message
SyncMessage(m) ==
    /\ pc = "idle"
    /\ req.n < MaxEvents
    /\ chroma' = add_message(chroma, m.workspace_id, m)
    /\ message_metadata' = upsert_message(message_metadata, m)
    /\ result' = [kind |-> "ingested", error |-> NoneVal,
                  value |-> [event |-> m, subtype |-> NoneVal, fail |-> "none",
                             path |-> "sync",
                             again |-> Stored(chroma, message_metadata, m),
                             changed |-> (add_message(chroma, m.workspace_id, m) # chroma
                                          \/ upsert_message(message_metadata, m) # message_metadata)]]
    /\ req' = [req EXCEPT !.entry = "ingest", !.n = @ + 1]
    /\ pc' = "responded"
    /\ UNCHANGED <<workspaces, engine, work, http, opened, queries, db>>

\* the handler has returned
HandlerReturn ==
    /\ pc = "responded"
    /\ pc' = "idle"
    /\ UNCHANGED <<chroma, workspaces, message_metadata, req, engine, work, result,
                   http, opened, queries, db>>

IngestNext ==
    \/ \E m \in {Original, Edited}, fail \in FailurePoints :
          HandleMessage(m, IF m = Edited THEN "message_changed" ELSE NoneVal, fail)
    \/ \E m \in {Original, Edited} : SyncMessage(m)
    \/ \E m \in {Original} : StoreReaction(m.workspace_id, m.slack_ts)
    \/ HandlerReturn

IngestSpec == IngestInit /\ [][IngestNext]_vars

-----------------------------------------------------------------------------
(* Properties *)

InEngine == req.entry \in {"api", "direct"} /\ engine # NoEngine

Returned == pc \in {"answered", "responded"}

\* C1: every result of a semantic search issued for a tenant carries that
\* tenant's workspace_id and was ingested for that tenant, whatever the query
\* text and the channel filter, and whatever was ingested for other tenants.
TenantIsolation ==
    /\ InEngine =>
          \A i \in 1..Len(work.candidates) :
              /\ work.candidates[i].metadata.workspace_id = engine.workspace_id
              /\ work.candidates[i].id[1] = engine.workspace_id
    /\ (req.entry = "search" /\ result.kind = "results") =>
          \A i \in 1..Len(result.value) :
              /\ result.value[i].metadata.workspace_id = req.workspace_id
              /\ result.value[i].id[1] = req.workspace_id

\* a search for W_B returned a message while W_A holds a message of the same text
TenantIsolationWitness ==
    /\ InEngine
    /\ engine.workspace_id = "W_B"
    /\ work.candidates # <<>>
    /\ collection_name("W_A") \in DOMAIN chroma
    /\ \E d \in Range(chroma[collection_name("W_A")]) :
          d.text = work.candidates[1].text

\* C2: search_messages with an empty or None workspace_id, and the
\* construction of QAService/QueryService with one, fail with the isolation
\* error; no collection has been opened, no query issued, no engine built on
\* a default tenant.
IsolationErrorFirst ==
    (pc = "responded" /\ req.entry \in {"search", "direct"} /\ Falsy(req.workspace_id)) =>
        /\ result.kind = "error"
        /\ result.error = "ValueError"
        /\ opened = <<>>
        /\ queries = <<>>
        /\ engine = NoEngine
        /\ \A c \in DOMAIN chroma : c[2] \in Tenants \cup {DefaultWorkspace}

IsolationErrorFirstWitness ==
    /\ pc = "responded"
    /\ req.entry = "search"
    /\ req.workspace_id = ""
    /\ result.error = "ValueError"
    /\ chroma # <<>>

\* the filter the caller of search_messages passed, as a mapping
CallerFilter == IF req.where_filter = NoFilter THEN <<>> ELSE req.where_filter

\* C3: the filter passed to the vector store carries workspace_id equal to
\* the tenant searched, also when the caller's filter named another tenant;
\* every other key of the caller's filter is passed unchanged, and the
\* conflict raises no error.
WhereTenantEnforced ==
    (pc = "responded" /\ req.entry = "search" /\ ~Falsy(req.workspace_id)) =>
        /\ Len(queries) = 1
        /\ DOMAIN queries[1].where = DOMAIN CallerFilter \cup {"workspace_id"}
        /\ queries[1].where["workspace_id"] = req.workspace_id
        /\ \A k \in DOMAIN CallerFilter \ {"workspace_id"} :
              queries[1].where[k] = CallerFilter[k]
        /\ result.error # "ValueError"

WhereTenantEnforcedWitness ==
    /\ pc = "responded"
    /\ req.entry = "search"
    /\ req.workspace_id = "W_A"
    /\ req.where_filter = [workspace_id |-> "W_B", channel_name |-> "general"]
    /\ result.kind = "results"
    /\ result.value # <<>>
    /\ queries[1].where = [workspace_id |-> "W_A", channel_name |-> "general"]

\* C4: an /ask request for which no workspace id was resolved fails with the
\* isolation error: no engine is built for it, on no default workspace.
NoDefaultTenant ==
    (req.entry = "api" /\ http.status \notin {400, 403, 404} /\ req.resolved = NoneVal) =>
        /\ result.kind = "error"
        /\ result.error = "ValueError"
        /\ engine = NoEngine
        /\ queries = <<>>

\* the active workspaces of the caller's organisation
OrgWorkspaces ==
    {r.workspace_id : r \in {x \in workspaces : x.org_id = get_current_user.org_id
                                                /\ x.is_active}}

\* C5: the workspace handed to QAService by /ask is an active workspace of the
\* caller's organisation, and a requested workspace that is not one is
\* rejected with 403, or 404 when it does not exist.
AskOnlyOwnWorkspace ==
    req.entry = "api" =>
        /\ engine # NoEngine => engine.workspace_id \in OrgWorkspaces
        /\ (~Falsy(req.workspace_id) /\ req.workspace_id \notin OrgWorkspaces) =>
              http.status = IF \E r \in workspaces : r.workspace_id = req.workspace_id
                            THEN 403 ELSE 404

AnswerKeys ==
    {"answer", "confidence", "confidence_explanation", "sources", "project_links",
     "context_used"}

\* C6: every call of answer_question on an engine built for a valid tenant
\* returns an Answer with all six fields, whatever the collaborators do.
AnswerAlwaysComplete ==
    (Returned /\ InEngine) =>
        /\ result.kind = "answer"
        /\ AnswerKeys \subseteq DOMAIN result.value

\* C7: when the generation call fails, answer_question returns the error
\* answer: confidence 0, the error text, the sources of the survivors.
GenerationFailureDegrades ==
    (Returned /\ InEngine /\ work.gen_raised) =>
        /\ result.kind = "answer"
        /\ result.value.confidence = 0
        /\ result.value.answer.template = "generation_error"
        /\ Len(result.value.sources) = Min(Len(work.survivors), SourceCap)
        /\ \A i \in 1..Len(result.value.sources) :
              result.value.sources[i].timestamp = work.survivors[i].metadata.timestamp

\* C8: when the users lookup fails while the sources are assembled, the answer
\* is returned all the same, each source carrying the user_name of the
\* vector-store metadata or "unknown".
LookupFailureAbsorbed ==
    (Returned /\ InEngine /\ work.lookup_failed) =>
        /\ result.kind = "answer"
        /\ \A i \in 1..Len(result.value.sources) :
              result.value.sources[i].user
                  \in {work.survivors[i].metadata.user_name, "unknown"}

\* the lookback window and the channel in force for the request, told from the
\* caller's arguments and the words of the question
ExpectedDays ==
    IF req.days_back # NoDays THEN req.days_back
    ELSE IF "yesterday" \in Range(req.question) THEN 2 ELSE NoDays

ExpectedChannel ==
    IF req.channel_filter # NoneVal THEN req.channel_filter
    ELSE IF "#general" \in Range(req.question) THEN "general" ELSE NoneVal

NamedFilters == Range(result.value.answer.filters)

\* C9: when no message survives, the answer has confidence 0, no sources, no
\* project links, context_used 0, and its text names the lookback window and
\* the channel that were in force, and no other.
EmptyResultNamesFilters ==
    (Returned /\ InEngine /\ result.kind = "answer" /\ work.survivors = <<>>) =>
        /\ result.value.confidence = 0
        /\ result.value.sources = <<>>
        /\ result.value.project_links = <<>>
        /\ result.value.context_used = 0
        /\ ExpectedDays > 0 <=>
              [kind |-> "last_days", days |-> ExpectedDays, channel |-> ""] \in NamedFilters
        /\ ~Falsy(ExpectedChannel) <=>
              [kind |-> "channel", days |-> 0, channel |-> ExpectedChannel] \in NamedFilters
        /\ Len(result.value.answer.filters) <= 2
        /\ (result.value.answer.template = "no_substantive_messages")
              <=> (NamedFilters # {})

EmptyResultNamesFiltersWitness ==
    /\ Returned
    /\ InEngine
    /\ result.kind = "answer"
    /\ work.survivors = <<>>
    /\ req.days_back = NoDays
    /\ req.channel_filter = NoneVal
    /\ Len(result.value.answer.filters) = 2
    /\ chroma[collection_name(engine.workspace_id)] # <<>>

\* the Nth source describes the message of the Nth context block
SameMessage(N) ==
    /\ N <= Len(result.value.sources)
    /\ result.value.sources[N].reference_number = N
    /\ work.context[N] = ContextBlock(work.survivors[N])
    /\ result.value.sources[N].text = Snippet(work.context[N].text)
    /\ result.value.sources[N].channel = OrElse(work.context[N].channel_name, "unknown")
    /\ result.value.sources[N].timestamp = work.survivors[N].metadata.timestamp

HasSources == Returned /\ InEngine /\ result.kind = "answer" /\ work.context # <<>>

\* C10 as claimed: for every N up to the number of context blocks, the Nth
\* block and the Nth source describe the same survivor, numbered N.
CitationOrderAllBlocks ==
    HasSources => \A N \in 1..Len(work.context) : SameMessage(N)

\* C10 as amended: the context has at most desired_context_size blocks, and
\* for every N up to the smaller of the number of blocks and SourceCap the Nth
\* block and the Nth source describe the same survivor, numbered N; blocks
\* beyond SourceCap have no source.
CitationOrder ==
    HasSources =>
        /\ Len(work.context) <= req.n
        /\ Len(result.value.sources) = Min(Len(work.context), SourceCap)
        /\ \A N \in 1..Min(Len(work.context), SourceCap) : SameMessage(N)

CitationOrderWitness ==
    /\ HasSources
    /\ Len(work.context) > SourceCap
    /\ Len(result.value.sources) = SourceCap
    /\ result.value.sources[SourceCap].text # result.value.sources[1].text

\* C11: the confidence of every returned Answer is an integer between 0 and
\* 100, whatever text the generation call returned, extracted from a
\* 'Confidence: N%' line or derived by the keyword fallback.
ConfidenceBounds ==
    (Returned /\ InEngine /\ result.kind = "answer") =>
        result.value.confidence \in 0..100

\* C13: a failure of the usage/audit logging step, at any point, leaves the
\* outcome of the ask request as it was: the computed answer is returned with
\* status 200.
LogFailureHarmless ==
    (pc = "responded" /\ req.entry = "api" /\ result.kind = "answer"
        /\ http.log \in LogOutcomes \ {"ok"}) =>
        http.status = 200

\* C12: running _filter_quality_messages on its own output with the same
\* limit returns that output: the same messages in the same order.
FilterIdempotent ==
    pc = "refiltered" => result.value.again = work.survivors

\* the filter dropped a candidate and kept two different ones, then ran again
FilterIdempotentWitness ==
    /\ pc = "refiltered"
    /\ Len(work.survivors) >= 2
    /\ work.survivors[1] # work.survivors[2]
    /\ Len(work.candidates) > Len(work.survivors)
    /\ ~IsQuality(work.candidates[1])

\* the candidates that pass the quality rules, in candidate order
Passing(messages) == SelectSeq(messages, IsQuality)

\* the place of the candidate that fills a quota of limit passing candidates;
\* the length of the list when the quota is never filled
QuotaIndex(messages, limit) ==
    LET filled == {k \in 0..Len(messages) :
                     Len(Passing(SubSeq(messages, 1, k))) = limit}
    IN  IF filled = {} THEN Len(messages)
        ELSE CHOOSE k \in filled : \A j \in filled : k <= j

\* C18: for every candidate list and every desired_context_size, 0 included,
\* the output has at most desired_context_size messages and is the first
\* desired_context_size passing candidates in candidate order; no candidate
\* after the one that filled the quota is examined.
FilterQuota ==
    pc = "filtered" =>
        /\ Len(work.survivors) <= req.n
        /\ work.survivors = Take(Passing(work.candidates), req.n)
        /\ result.value.examined = QuotaIndex(work.candidates, req.n)

\* the three conditions on a candidate's text
TooShort(text) == CharLen(text) < 10

HasNotice(text) == \E pattern \in skip_patterns : ContainsPhrase(text, pattern)

MostlyMentions(text) == Len(text) > 0 /\ 2 * CountMentions(text) > Len(text)

\* none of the three holds, the notice looked for in the text as written
KeptAsWritten(msg) ==
    ~(TooShort(msg.text) \/ HasNotice(msg.text) \/ MostlyMentions(msg.text))

\* none of the three holds, the notice looked for in the lower-cased text
KeptCaseFolded(msg) ==
    ~(TooShort(msg.text) \/ HasNotice(Lower(msg.text)) \/ MostlyMentions(msg.text))

Examined == SubSeq(work.candidates, 1, result.value.examined)

\* C20 as claimed: an examined candidate is dropped if and only if its trimmed
\* text is shorter than 10 characters, or its text contains a notification
\* substring, or its mention markers are more than half its words.
DropRulesAsWritten ==
    pc = "filtered" => work.survivors = SelectSeq(Examined, KeptAsWritten)

\* C20 as amended: an examined candidate is dropped if and only if its trimmed
\* text is shorter than 10 characters, or its lower-cased text contains a
\* notification substring, or its mention markers are more than half its
\* words; three mentions alone are dropped, a ratio of exactly 0.5 is kept.
DropRules ==
    pc = "filtered" =>
        /\ work.survivors = SelectSeq(Examined, KeptCaseFolded)
        /\ [text |-> MentionsOnlyText] \notin Range(work.survivors)
        /\ [text |-> HalfMentionText] \in Range(Examined)
              => [text |-> HalfMentionText] \in Range(work.survivors)

\* three mentions dropped, a capitalised join notice dropped, ratio 0.5 kept
DropRulesWitness ==
    /\ pc = "filtered"
    /\ work.candidates = <<[text |-> MentionsOnlyText], [text |-> ShoutedJoinText],
                           [text |-> HalfMentionText]>>
    /\ work.survivors = <<[text |-> HalfMentionText]>>
    /\ result.value.examined = 3

\* the row's text is in the vector store
HasText(row) ==
    /\ collection_name(row.workspace_id) \in DOMAIN chroma
    /\ \E d \in Range(chroma[collection_name(row.workspace_id)]) :
          d.id = <<row.workspace_id, row.slack_ts>>

LookupDone == pc = "responded" /\ result.kind \in {"recent", "most_reacted"}

\* C14: get_recent_messages and get_most_reacted_messages return one entry for
\* every row the query selected, in the order selected; a row without a text
\* entry in the vector store is returned with the sentinel text.
LookupKeepsEveryRow ==
    LookupDone =>
        /\ Len(result.value) = Len(work.candidates)
        /\ \A i \in 1..Len(result.value) :
              /\ result.value[i].message_id = work.candidates[i].message_id
              /\ ~HasText(work.candidates[i]) => result.value[i].text = MessageNotFound

\* C17: after any sequence of single adds, batch adds and backfill stores,
\* every document of a tenant's collection has metadata workspace_id equal to
\* that tenant, also when the caller's metadata named another workspace.
StoredUnderOwnTenant ==
    \A c \in DOMAIN chroma :
        \A i \in 1..Len(chroma[c]) : chroma[c][i].metadata.workspace_id = c[2]

\* a single add whose metadata named the other tenant, next to a backfilled
\* history and a batch-added or listener-added message
StoredUnderOwnTenantWitness ==
    /\ pc = "responded"
    /\ req.entry = "add"
    /\ req.resolved \in Tenants \ {req.workspace_id}
    /\ collection_name("W_A") \in DOMAIN chroma
    /\ \E d \in Range(chroma[collection_name(req.workspace_id)]) :
          Len(d.id) = 2 /\ d.metadata.workspace_id = req.workspace_id
    /\ \E d \in Range(chroma[collection_name("W_A")]) : Len(d.id) = 3
    /\ Cardinality(LiveDocs(chroma)) = MaxDocs

PrUrl == "https://github.com/org/repo/pull/123"

MentionsPr(msg) == PrUrl \in Range(msg.text)

\* C15: when a survivor's text holds a pull-request URL, project_links has an
\* entry of type github whose url is that full URL, and the sources have an
\* entry with that message's channel.
PrLinkListed ==
    (Returned /\ InEngine /\ result.kind = "answer"
        /\ \E i \in 1..Len(work.survivors) : MentionsPr(work.survivors[i])) =>
        /\ \E l \in Range(result.value.project_links) :
              l.type = "github" /\ l.url = PrUrl
        /\ \A i \in 1..Len(work.survivors) :
              MentionsPr(work.survivors[i]) =>
                  \E src \in Range(result.value.sources) :
                      src.channel = work.survivors[i].metadata.channel_name

\* the request has passed retrieval and filtering
Filtered == InEngine /\ pc \in {"context", "answered", "responded"}

\* C16: while a lookback window of d days is in force, no message whose
\* timestamp is at or before now minus d days, or missing, is among the
\* survivors, the blocks of the generation context or the sources.
WindowKeepsOutOld ==
    (Filtered /\ ExpectedDays > 0) =>
        /\ \A i \in 1..Len(work.survivors) :
              /\ work.survivors[i].metadata.timestamp # NoTs
              /\ work.survivors[i].metadata.timestamp > Now - ExpectedDays
        /\ Len(work.context) <= Len(work.survivors)
        /\ \A i \in 1..Len(work.context) :
              work.context[i] = ContextBlock(work.survivors[i])
        /\ result.kind = "answer" =>
              \A i \in 1..Len(result.value.sources) :
                  /\ result.value.sources[i].timestamp # NoTs
                  /\ result.value.sources[i].timestamp > Now - ExpectedDays

\* a 3-day window over a collection that holds a message dated exactly 3 days
\* ago and one without a timestamp; younger messages survive and are cited
WindowKeepsOutOldWitness ==
    /\ Filtered
    /\ pc = "answered"
    /\ result.kind = "answer"
    /\ ExpectedDays = 3
    /\ Len(result.value.sources) >= 2
    /\ \E d \in Range(chroma[collection_name(engine.workspace_id)]) :
          d.metadata.timestamp = Now - 3
    /\ \E d \in Range(chroma[collection_name(engine.workspace_id)]) :
          d.metadata.timestamp = NoTs

TerminalTemplates ==
    {"no_substantive_messages", "no_relevant_information", "generation_error",
     "generated", "mock"}

\* C19: every question handled by answer_question ends in one of EMPTY_RESULT,
\* GENERATION_ERROR or DONE after a single pass: at most one retrieval, at
\* most one generation call, and no generation call when nothing survived.
SinglePassTerminal ==
    (Returned /\ InEngine) =>
        /\ result.kind = "answer"
        /\ result.value.answer.template \in TerminalTemplates
        /\ Len(queries) <= 1
        /\ work.gen_calls <= 1
        /\ work.survivors = <<>> => work.gen_calls = 0

\* the phrases and day counts, in the order of the table
PhraseDays ==
    << <<<<"today">>, 1>>, <<<<"yesterday">>, 2>>, <<<<"this", "week">>, 7>>,
       <<<<"past", "week">>, 7>>, <<<<"last", "week">>, 14>>,
       <<<<"this", "month">>, 30>>, <<<<"past", "month">>, 30>>,
       <<<<"last", "month">>, 60>>, <<<<"recent">>, 7>>, <<<<"recently">>, 7>>,
       <<<<"latest">>, 7>> >>

\* the places of the table whose phrase occurs in the question, case ignored
Occurring(question) ==
    {i \in 1..Len(PhraseDays) : InText(Lower(question), PhraseDays[i][1])}

\* C21: with no window supplied the window is the day count of the first
\* phrase of the table occurring in the question, case ignored, also when a
\* later phrase occurs too, and none when no phrase occurs; a supplied window
\* is kept as supplied.
TimeFilterFirstMatch ==
    pc = "inferred" =>
        IF req.days_back # NoDays THEN work.days_back = req.days_back
        ELSE IF Occurring(req.question) = {} THEN work.days_back = NoDays
        ELSE \E i \in Occurring(req.question) :
                /\ \A j \in Occurring(req.question) : i <= j
                /\ work.days_back = PhraseDays[i][2]

\* 'Last week' stands before 'Today' in the question and after it in the table
TimeFilterFirstMatchWitness ==
    /\ pc = "inferred"
    /\ req.question = <<"Last", "week", "Today">>
    /\ req.days_back = NoDays
    /\ work.days_back = 1

\* the keyword groups and their scores, in the order they are tried
Buckets ==
    << <<{<<"couldn't", "find">>, <<"don't", "have">>, <<"no", "information">>}, 10>>,
       <<{<<"not", "sure">>, <<"unclear">>, <<"uncertain">>}, 30>>,
       <<{<<"might">>, <<"possibly">>, <<"seems">>}, 55>> >>

\* the groups with a phrase occurring in the answer, case ignored
BucketsHit(answer) ==
    {i \in 1..Len(Buckets) :
        \E ph \in Buckets[i][1] : ContainsPhrase(Lower(answer), ph)}

\* C22: for an answer without a confidence line the score is that of the first
\* keyword group, in the order 10, 30, 55, with a phrase in the answer, and 65
\* when no group has one; an answer hitting several groups gets the earliest.
FallbackBuckets ==
    (pc = "extracted" /\ result.value.conf_line = NoDays) =>
        IF BucketsHit(result.value.answer) = {} THEN result.value.confidence = 65
        ELSE \E i \in BucketsHit(result.value.answer) :
                /\ \A j \in BucketsHit(result.value.answer) : i <= j
                /\ result.value.confidence = Buckets[i][2]

\* a hedging word stands before the decline phrase, the decline phrase wins
FallbackBucketsWitness ==
    /\ pc = "extracted"
    /\ result.value.conf_line = NoDays
    /\ result.value.answer = <<"Might", "couldn't", "find">>
    /\ result.value.confidence = 10

\* body is the first characters of text: its words are those of text, the
\* last one cut
CharPrefix(body, text) ==
    /\ body # <<>>
    /\ Len(body) <= Len(text)
    /\ \A j \in 1..(Len(body) - 1) : body[j] = text[j]
    /\ body[Len(body)] = Cut(text[Len(body)], WordLen(body[Len(body)]))

\* what a source shows of a text
Shown(shown, text) ==
    IF CharLen(text) <= 200 THEN shown = text
    ELSE /\ shown[Len(shown)] = "..."
         /\ CharLen(SubSeq(shown, 1, Len(shown) - 1)) = 200
         /\ CharPrefix(SubSeq(shown, 1, Len(shown) - 1), text)

\* C23: the sources built from k survivors are min(10, k) entries, entry i
\* built from survivor i and numbered i, its text the survivor's text when that
\* has at most 200 characters and else its first 200 characters and the
\* ellipsis marker.
SourcesShape ==
    (pc = "formatted" /\ result.error = NoneVal) =>
        LET k == Len(work.survivors)
            sources == result.value.sources
        IN  /\ Len(sources) = Min(10, k)
            /\ \A i \in 1..Len(sources) :
                  /\ sources[i].reference_number = i
                  /\ sources[i].timestamp = work.survivors[i].metadata.timestamp
                  /\ Shown(sources[i].text, work.survivors[i].text)

\* eleven survivors give ten sources, a text of 201 characters is cut inside
\* its second word and one of 200 is kept as it is
SourcesShapeWitness ==
    /\ pc = "formatted"
    /\ result.error = NoneVal
    /\ Len(work.survivors) = 11
    /\ Len(result.value.sources) = 10
    /\ \E i, j \in 1..10 :
          /\ work.survivors[i].text = <<"lorem100", "lorem100">>
          /\ result.value.sources[i].text = <<"lorem100", "lorem99", "...">>
          /\ work.survivors[j].text = <<"lorem100", "lorem99">>
          /\ result.value.sources[j].text = <<"lorem100", "lorem99">>

\* the links a text holds, by either family of patterns
UrlsIn(text) ==
    {RStrip(PatternMatch(p, text[i])) :
        p \in Range(LinkPatterns), i \in 1..Len(text)} \ {NoneVal}

\* C24: no two project links have the same url, every link is tagged github or
\* documentation, and every link held by a survivor, the survivors after the
\* tenth included, is listed.
LinksUnique ==
    pc = "linked" =>
        LET links == result.value.project_links
        IN  /\ \A i, j \in 1..Len(links) : links[i].url = links[j].url => i = j
            /\ \A i \in 1..Len(links) : links[i].type \in {"github", "documentation"}
            /\ \A k \in 1..Len(work.survivors) :
                  UrlsIn(work.survivors[k].text)
                      \subseteq {links[i].url : i \in 1..Len(links)}

\* ten survivors without a link, then the guide twice (once with a full stop,
\* matched by both documentation patterns) and the repository: three links
LinksUniqueWitness ==
    /\ pc = "linked"
    /\ Len(work.survivors) = SourceCap + 3
    /\ \A k \in 1..SourceCap : UrlsIn(work.survivors[k].text) = {}
    /\ work.survivors[SourceCap + 1].text = <<"docs", "https://docs.readthedocs.io/guide.">>
    /\ work.survivors[SourceCap + 2].text = <<"https://docs.readthedocs.io/guide">>
    /\ UrlsIn(work.survivors[SourceCap + 3].text)
         = {"https://github.com/org/repo", "https://docs.example.com/api"}
    /\ Len(result.value.project_links) = 3

\* the pools out of which task t has a connection
CheckedOut(t) == {p \in 1..Len(db.pools) : t \in db.pools[p].used}

\* the positions inside the step that took the connection
InsideStep(t) ==
    IF t = "ask" THEN {"sources_query", "sources_finally"}
    ELSE {"query", "enrich", "finally"}

SamePool ==
    /\ Len(db.pools) <= 1
    /\ \A t \in Tasks : work[t].conn # 0 => work[t].conn = db.connection_pool
    /\ \A t \in Tasks : work[t].raised # "PoolError"

\* the source timestamp a document's id was built from
SourceTs(doc) == doc.id[Len(doc.id)]

\* C28: whichever path stored it, a document is found by get_message under
\* its tenant and source timestamp, and a collection holds no two documents
\* of the same source timestamp.
OneIdPerMessage ==
    \A c \in DOMAIN chroma : \A i \in 1..Len(chroma[c]) :
        /\ get_message(chroma, c[2], SourceTs(chroma[c][i])) # NoDoc
        /\ \A j \in 1..Len(chroma[c]) :
              SourceTs(chroma[c][j]) = SourceTs(chroma[c][i]) => j = i

\* the documents and the records of the message of the last event
EventDocs ==
    LET m == result.value.event
        name == collection_name(m.workspace_id)
    IN  IF name \notin DOMAIN chroma THEN {}
        ELSE {i \in 1..Len(chroma[name]) : SourceTs(chroma[name][i]) = m.slack_ts}

EventRows ==
    LET m == result.value.event
    IN  {i \in 1..Len(message_metadata) :
            /\ message_metadata[i].workspace_id = m.workspace_id
            /\ message_metadata[i].slack_ts = m.slack_ts}

\* C26: after an event of a message was handled without a failure the
\* metadata store holds one record and the vector store one document for it,
\* the document with the text of that event; an event of a message stored
\* already in that form changes nothing and does not fail.
LatestEventStored ==
    (pc = "responded" /\ result.kind = "ingested") =>
        /\ result.error = NoneVal =>
              /\ Cardinality(EventRows) = 1
              /\ Cardinality(EventDocs) = 1
              /\ \A i \in EventDocs :
                    chroma[collection_name(result.value.event.workspace_id)][i].text
                        = result.value.event.text
        /\ (result.value.again /\ result.value.fail = "none") =>
              (~result.value.changed /\ result.error = NoneVal)

RECURSIVE IsSubseq(_, _)
\* s is t with some elements left out, the others in the order of t
IsSubseq(s, t) ==
    IF s = <<>> THEN TRUE
    ELSE IF t = <<>> THEN FALSE
    ELSE IF Head(s) = Head(t) THEN IsSubseq(Tail(s), Tail(t))
    ELSE IsSubseq(s, Tail(t))

\* the ranked list the vector store returned to the query of this request
Ranked ==
    IF queries = <<>> \/ queries[1].collection \notin DOMAIN chroma THEN <<>>
    ELSE collection_query(chroma[queries[1].collection], req.question,
                          queries[1].n_results, queries[1].where)

\* what a source shows of a message
Cited(text, timestamp, distance) ==
    [text |-> Snippet(text), timestamp |-> timestamp, distance |-> distance]

Ascending(list) ==
    \A i \in 1..(Len(list) - 1) : list[i].distance <= list[i + 1].distance

\* C30: the survivors, the context blocks and the sources are the ranked list
\* of the vector store with elements left out and none moved, and, the ranked
\* list being in ascending distance, the distances of successive sources do
\* not decrease.
OrderKept ==
    Filtered =>
        LET ranked == Ranked
            sources == IF result.kind = "answer" THEN result.value.sources ELSE <<>>
        IN  /\ IsSubseq(work.survivors, ranked)
            /\ IsSubseq(work.context, [i \in 1..Len(ranked) |-> ContextBlock(ranked[i])])
            /\ IsSubseq([i \in 1..Len(sources) |->
                            Cited(sources[i].text, sources[i].timestamp,
                                  sources[i].distance)],
                        [i \in 1..Len(ranked) |->
                            Cited(ranked[i].text, ranked[i].metadata.timestamp,
                                  ranked[i].distance)])
            /\ Ascending(ranked) => Ascending(sources)

\* both filters removed candidates and the sources left differ in distance
OrderKeptWitness ==
    /\ Filtered
    /\ result.kind = "answer"
    /\ ExpectedDays > 0
    /\ Len(work.candidates) < Len(Ranked)
    /\ Len(work.survivors) < Len(work.candidates)
    /\ Len(result.value.sources) >= 2
    /\ result.value.sources[1].distance
         < result.value.sources[Len(result.value.sources)].distance

====
